---- MODULE Spec2Model ----
(***************************************************************************)
(* The GPU buffer pool (GlobalBufferManager), the culling driver and       *)
(* kernels (ComputeCullingManager, culling.wgsl) and the render driver     *)
(* (IndirectRenderPlugin) of the Custom Spec 2.0 engine.                   *)
(*                                                                         *)
(* Typed arrays are sequences of their full (zero-initialised) length; the *)
(* source indexes from 0, so element i of the source is a[i + 1] here (At, *)
(* Put, SetRange).  Capacities are scaled down; arithmetic is on integers: *)
(* the meshes, transforms and planes used as inputs are chosen so that     *)
(* every mean, square root and normalisation of the source is exact.       *)
(***************************************************************************)
EXTENDS Integers, Sequences, FiniteSets, TLC

\* ---------------------------------------------------------------- bounds
\* Capacities of the pool (scaled down from the source's values).
INITIAL_VERTEX_CAPACITY == 6
INITIAL_INDEX_CAPACITY == 7
INITIAL_INSTANCE_CAPACITY == 3
maxDrawCommands == 2
\* Number of addDrawCommandInstances calls that record a segment in one run.
MaxSegments == 3
\* Largest count of one recorded segment, and largest batch of one
\* appendInstanceData call.
MaxSegCount == 2
MaxBatch == 2
\* Number of frames counted by the render driver.
MaxFrames == 1
\* largest instance count handed to setDrawCommandInstances or reached through
\* updateIndirectDrawCommand
MaxInstanceArg == 1
\* Number of pools constructed in one run (getInstance after dispose).
MaxPools == 3
\* Chunks in a manifest, and chunk fetches in flight at once (8 in the code).
MaxChunks == 3
BATCH_SIZE == 2

\* ------------------------------------------------------- typed arrays
Fill(n, v) == [i \in 1..n |-> v]

At(a, i) == a[i + 1]

\* a[i] = v of a typed array: a store outside the array is ignored.
Put(a, i, v) == IF i >= 0 /\ i < Len(a) THEN [a EXCEPT ![i + 1] = v] ELSE a

\* TypedArray.set(vals, off)
SetRange(a, off, vals) ==
    [i \in 1..Len(a) |-> IF i > off /\ i <= off + Len(vals) THEN vals[i - off] ELSE a[i]]

\* queue.writeBuffer(dst, 0, src, 0, n elements): the first n elements of src.
Upload(dst, src, n) ==
    [i \in 1..Len(dst) |-> IF i <= n /\ i <= Len(src) THEN src[i] ELSE dst[i]]

\* queue.writeBuffer(dst, off, src, off, n elements)
UploadAt(dst, src, off, n) ==
    [i \in 1..Len(dst) |-> IF i > off /\ i <= off + n /\ i <= Len(src) THEN src[i] ELSE dst[i]]

Max(a, b) == IF a >= b THEN a ELSE b

\* Math.sqrt / length(): exact on the perfect squares the inputs produce.
ISqrt(n) == CHOOSE r \in 0..n : r * r <= n /\ (r + 1) * (r + 1) > n

\* ------------------------------------------------------------- inputs
\* One interleaved vertex: position + normal (6 floats, stride 24 bytes).
Vtx(x, y, z) == <<x, y, z, 0, 1, 0>>

MeshPoint == [vertices |-> Vtx(2, 0, 0), indices |-> <<0>>]

MeshDiamond ==
    [vertices |-> Vtx(-1, 0, 0) \o Vtx(1, 0, 0) \o Vtx(0, 1, 0) \o Vtx(0, -1, 0),
     indices |-> <<0, 1, 2, 0, 1, 3>>]

MeshLine == [vertices |-> Vtx(0, 0, 0) \o Vtx(4, 0, 0), indices |-> <<0, 1, 0, 1>>]

Meshes == {MeshPoint, MeshDiamond, MeshLine}

\* Column-major 4x4 matrix: scale (sx, sy, sz), then translation (tx, ty, tz).
Mat(sx, sy, sz, tx, ty, tz) ==
    <<sx, 0, 0, 0,  0, sy, 0, 0,  0, 0, sz, 0,  tx, ty, tz, 1>>

TrsNear == Mat(1, 1, 1, 0, 0, 10)
TrsFar == Mat(2, 1, 1, 0, 0, -10)

InstanceKinds == {[trs |-> TrsNear, id |-> 7], [trs |-> TrsFar, id |-> 9]}

RECURSIVE KindSeqs(_)
KindSeqs(n) ==
    IF n = 0 THEN {<<>>}
    ELSE {Append(s, k) : s \in KindSeqs(n - 1), k \in InstanceKinds}

RECURSIVE FlatTrs(_)
FlatTrs(ks) == IF ks = <<>> THEN <<>> ELSE Head(ks).trs \o FlatTrs(Tail(ks))

\* The arguments of appendInstanceData: trsData (16 floats each), batchIds.
BatchOf(ks) == [trsData |-> FlatTrs(ks), batchIds |-> [i \in 1..Len(ks) |-> ks[i].id]]

Batches == {BatchOf(ks) : ks \in UNION {KindSeqs(n) : n \in 1..MaxBatch}}

\* -------------------------------------------------------------- state
VARIABLES
    \* GlobalBufferManager, host side
    vertexData, indexData, vertexCount, indexCount,
    trsData, batchIdData, instanceCount,
    indirectDrawData, drawCommandCount, meshBoundsData,
    remapData, remapCount, remapFinalized,
    drawCommandFirstInstance, drawCommandInstanceCount, pendingRemapSegments,
    instanceDrawCmdMap, drawCmdBaseOffsets,
    \* GlobalBufferManager, device buffers
    vertexAtlasBuffer, indexAtlasBuffer, instanceTRSBuffer, batchIdBuffer,
    indirectDrawGpuBuffer, visibleIndicesBuffer, instanceDrawCmdMapBuffer,
    drawCmdBaseOffsetsBuffer, meshBoundsBuffer,
    \* IndirectRenderPlugin
    initialized, frameCount, submitted,
    \* ComputeCullingManager
    cullInitialized, bindGroup, uniformBuffer,
    \* the device executing a submitted culling dispatch
    gpuPass, resetDone, cullPc, cullSlot,
    \* the last host call: its name, its return value, what it logged
    ret,
    \* number of segments recorded so far
    segsRecorded,
    \* the culling dispatch before the one submitted last: its uniform and the
    \* instance counts it left in the indirect buffer
    prevPass,
    \* CustomTileParser: _globalMeshCache, and the processTileGltf call in progress
    globalMeshCache, tile,
    \* GlobalBufferManager._instance (0: null, else the number of the pool), and
    \* for every pool constructed so far the state of its device buffers and how
    \* often they were created and destroyed
    instance, pools,
    \* TilesetLoader._loadChunkedGLBs: where the call is, the sorted chunk list,
    \* the state of every _loadSingleChunk promise, and for every recorded
    \* segment the chunk whose processTileGltf recorded it
    loader

atlasVars == <<vertexData, indexData, vertexCount, indexCount,
               vertexAtlasBuffer, indexAtlasBuffer>>
instanceVars == <<trsData, batchIdData, instanceCount, instanceTRSBuffer, batchIdBuffer>>
commandVars == <<indirectDrawData, drawCommandCount, meshBoundsData>>
trackVars == <<drawCommandFirstInstance, drawCommandInstanceCount>>
remapVars == <<remapData, remapCount, instanceDrawCmdMap, drawCmdBaseOffsets>>
finalGpuVars == <<indirectDrawGpuBuffer, visibleIndicesBuffer, instanceDrawCmdMapBuffer,
                  drawCmdBaseOffsetsBuffer, meshBoundsBuffer>>
pluginVars == <<initialized, frameCount, submitted>>
cullMgrVars == <<cullInitialized, bindGroup, uniformBuffer>>
gpuVars == <<gpuPass, resetDone, cullPc, cullSlot, prevPass>>

poolVars == <<atlasVars, instanceVars, commandVars, trackVars, remapVars, finalGpuVars,
              remapFinalized, pendingRemapSegments>>

parserVars == <<globalMeshCache, tile>>
\* everything but the tile parser
coreVars == <<poolVars, pluginVars, cullMgrVars, gpuVars, ret, segsRecorded>>
lifeVars == <<instance, pools>>
loaderVars == <<loader>>
vars == <<coreVars, parserVars, lifeVars, loaderVars>>

NoEntry == [drawCommandIndex |-> -1, baseVertex |-> 0, firstIndex |-> 0, indexCount |-> 0]

\* req: the sizes an append call asked for (vertices and indices, or instances).
Ret(op, log, entry, start) ==
    [op |-> op, req |-> <<>>, log |-> log, entry |-> entry, start |-> start]

\* No culling dispatch is executing on the device: queue operations run in the
\* order they were issued, so a host call takes effect before or after the
\* whole dispatch, never inside it.
HostTurn == gpuPass = "idle"

\* No _loadChunkedGLBs call was made.
IdleLoader == [pc |-> "idle", sorted |-> <<>>, i |-> 0, chunk |-> <<>>, owner |-> <<>>]

\* No processTileGltf call is in progress.
IdleTile ==
    [pc |-> "idle", gltf |-> [meshes |-> <<>>, nodes |-> <<>>], n |-> 0,
     localMeshMap |-> <<>>, pendingInstances |-> <<>>, g |-> 0, l |-> 0,
     firstInstance |-> 0]

Init ==
    /\ vertexData = Fill(INITIAL_VERTEX_CAPACITY * 6, 0)
    /\ indexData = Fill(INITIAL_INDEX_CAPACITY, 0)
    /\ vertexCount = 0
    /\ indexCount = 0
    /\ trsData = Fill(INITIAL_INSTANCE_CAPACITY * 16, 0)
    /\ batchIdData = Fill(INITIAL_INSTANCE_CAPACITY * 4, 0)
    /\ instanceCount = 0
    /\ indirectDrawData = Fill(maxDrawCommands * 5, 0)
    /\ drawCommandCount = 0
    /\ meshBoundsData = Fill(maxDrawCommands * 4, 0)
    /\ remapData = Fill(INITIAL_INSTANCE_CAPACITY, 0)
    /\ remapCount = 0
    /\ remapFinalized = FALSE
    /\ drawCommandFirstInstance = <<>>
    /\ drawCommandInstanceCount = <<>>
    /\ pendingRemapSegments = <<>>
    /\ instanceDrawCmdMap = Fill(INITIAL_INSTANCE_CAPACITY, 0)
    /\ drawCmdBaseOffsets = Fill(maxDrawCommands, 0)
    /\ vertexAtlasBuffer = Fill(INITIAL_VERTEX_CAPACITY * 6, 0)
    /\ indexAtlasBuffer = Fill(INITIAL_INDEX_CAPACITY, 0)
    /\ instanceTRSBuffer = Fill(INITIAL_INSTANCE_CAPACITY * 16, 0)
    /\ batchIdBuffer = Fill(INITIAL_INSTANCE_CAPACITY * 4, 0)
    /\ indirectDrawGpuBuffer = Fill(maxDrawCommands * 5, 0)
    /\ visibleIndicesBuffer = Fill(INITIAL_INSTANCE_CAPACITY, 0)
    /\ instanceDrawCmdMapBuffer = Fill(INITIAL_INSTANCE_CAPACITY, 0)
    /\ drawCmdBaseOffsetsBuffer = Fill(maxDrawCommands, 0)
    /\ meshBoundsBuffer = Fill(maxDrawCommands * 4, 0)
    /\ initialized = FALSE
    /\ frameCount = 0
    /\ submitted = <<>>
    /\ cullInitialized = FALSE
    /\ bindGroup = FALSE
    /\ uniformBuffer = [frustumPlanes |-> Fill(6, <<0, 0, 0, 0>>),
                        totalInstances |-> 0, drawCommandCount |-> 0]
    /\ gpuPass = "idle"
    /\ resetDone = {}
    /\ cullPc = <<>>
    /\ cullSlot = <<>>
    /\ prevPass = [uniform |-> uniformBuffer, counts |-> <<>>]
    /\ ret = Ret("construct", "none", NoEntry, 0)
    /\ segsRecorded = 0
    /\ globalMeshCache = <<>>
    /\ tile = IdleTile
    /\ instance = 1
    /\ pools = <<[buffers |-> "live", created |-> 1, destroyed |-> 0]>>
    /\ loader = IdleLoader

\* ------------------------------------------------ appendMeshGeometry
RECURSIVE SumCoord(_, _, _)
\* sum over the first n vertices of coordinate k (0, 1, 2) of the position
SumCoord(vertices, n, k) ==
    IF n = 0 THEN 0 ELSE At(vertices, (n - 1) * 6 + k) + SumCoord(vertices, n - 1, k)

RECURSIVE MaxRadSq(_, _, _, _, _)
MaxRadSq(vertices, n, cx, cy, cz) ==
    IF n = 0 THEN 0
    ELSE LET dx == At(vertices, (n - 1) * 6 + 0) - cx
             dy == At(vertices, (n - 1) * 6 + 1) - cy
             dz == At(vertices, (n - 1) * 6 + 2) - cz
         IN Max(dx * dx + dy * dy + dz * dz, MaxRadSq(vertices, n - 1, cx, cy, cz))

\* Variant: the radius measured from the origin instead of from the centre.
BoundingSphereFromOrigin(vertices) ==
    LET n == Len(vertices) \div 6
        cx == SumCoord(vertices, n, 0) \div n
        cy == SumCoord(vertices, n, 1) \div n
        cz == SumCoord(vertices, n, 2) \div n
    IN <<cx, cy, cz, ISqrt(MaxRadSq(vertices, n, 0, 0, 0))>>

\* The local bounding sphere <<cx, cy, cz, radius>> of a mesh.
BoundingSphere(vertices) ==
    LET n == Len(vertices) \div 6
        cx == SumCoord(vertices, n, 0) \div n
        cy == SumCoord(vertices, n, 1) \div n
        cz == SumCoord(vertices, n, 2) \div n
    IN <<cx, cy, cz, ISqrt(MaxRadSq(vertices, n, cx, cy, cz))>>

\* MeshCapacityFailure without the index capacity check.
MeshCapacityFailureNoIndex(vertices, indices) ==
    IF vertexCount + (Len(vertices) \div 6) > INITIAL_VERTEX_CAPACITY THEN "vertex"
    ELSE IF drawCommandCount >= maxDrawCommands THEN "command"
    ELSE "none"

\* Which capacity check of appendMeshGeometry fails first ("none": the mesh fits).
MeshCapacityFailure(vertices, indices) ==
    IF vertexCount + (Len(vertices) \div 6) > INITIAL_VERTEX_CAPACITY THEN "vertex"
    ELSE IF indexCount + Len(indices) > INITIAL_INDEX_CAPACITY THEN "index"
    ELSE IF drawCommandCount >= maxDrawCommands THEN "command"
    ELSE "none"

\* Variant: the base vertex given as a float offset into the vertex atlas.
DrawCommandFloatOffset(iCount, firstIndex, baseVertex) ==
    <<iCount, 0, firstIndex, baseVertex * 6, 0>>

\* The indirect slot of a new command:
\* [indexCount, instanceCount, firstIndex, baseVertex, firstInstance]
DrawCommand(iCount, firstIndex, baseVertex) == <<iCount, 0, firstIndex, baseVertex, 0>>

AppendMeshGeometry(vertices, indices) ==
    LET vertexFloatCount == Len(vertices)
        vCount == vertexFloatCount \div 6
        iCount == Len(indices)
        failure == MeshCapacityFailure(vertices, indices)
        baseVertex == vertexCount
        firstIndex == indexCount
        drawCommandIndex == drawCommandCount
        vertexOffset == vertexCount * 6
        cmdOffset == drawCommandIndex * 5
        bOff == drawCommandIndex * 4
    IN
    /\ HostTurn
    /\ IF failure # "none"
       THEN /\ ret' = [Ret("appendMeshGeometry", failure, NoEntry, 0)
                           EXCEPT !.req = <<vCount, iCount>>]
            /\ UNCHANGED <<poolVars, segsRecorded>>
       ELSE /\ vertexData' = SetRange(vertexData, vertexOffset, vertices)
            /\ indexData' = SetRange(indexData, indexCount, indices)
            /\ vertexAtlasBuffer' = SetRange(vertexAtlasBuffer, vertexOffset, vertices)
            /\ indexAtlasBuffer' = SetRange(indexAtlasBuffer, indexCount, indices)
            /\ vertexCount' = vertexCount + vCount
            /\ indexCount' = indexCount + iCount
            /\ indirectDrawData' =
                   SetRange(indirectDrawData, cmdOffset, DrawCommand(iCount, firstIndex, baseVertex))
            /\ meshBoundsData' = SetRange(meshBoundsData, bOff, BoundingSphere(vertices))
            /\ drawCommandFirstInstance' = Append(drawCommandFirstInstance, -1)
            /\ drawCommandInstanceCount' = Append(drawCommandInstanceCount, 0)
            /\ drawCommandCount' = drawCommandCount + 1
            /\ ret' = [Ret("appendMeshGeometry", "none",
                           [drawCommandIndex |-> drawCommandIndex, baseVertex |-> baseVertex,
                            firstIndex |-> firstIndex, indexCount |-> iCount], 0)
                           EXCEPT !.req = <<vCount, iCount>>]
            /\ UNCHANGED <<instanceVars, remapVars, finalGpuVars, remapFinalized,
                           pendingRemapSegments, segsRecorded>>
    /\ UNCHANGED <<pluginVars, cullMgrVars, gpuVars>>

\* ------------------------------------------------ appendInstanceData
\* Variant: the identifiers packed one word per instance.
RECURSIVE PutIdsPacked(_, _, _, _)
PutIdsPacked(data, start, batchIds, i) ==
    IF i = Len(batchIds) THEN data
    ELSE PutIdsPacked(Put(data, start + i, At(batchIds, i)), start, batchIds, i + 1)

\* batchIdData[(instanceCount + i) * 4] = batchIds[i], i in [0, count)
RECURSIVE PutIds(_, _, _, _)
PutIds(data, start, batchIds, i) ==
    IF i = Len(batchIds) THEN data
    ELSE PutIds(Put(data, (start + i) * 4, At(batchIds, i)), start, batchIds, i + 1)

AppendInstanceData(trs, batchIds) ==
    LET count == Len(batchIds)
        startIndex == instanceCount
        trsOffset == instanceCount * 16
        newTrs == SetRange(trsData, trsOffset, trs)
        newIds == PutIds(batchIdData, instanceCount, batchIds, 0)
    IN
    /\ HostTurn
    /\ IF instanceCount + count > INITIAL_INSTANCE_CAPACITY
       THEN /\ ret' = [Ret("appendInstanceData", "instance", NoEntry, instanceCount)
                           EXCEPT !.req = <<count>>]
            /\ UNCHANGED <<poolVars, segsRecorded>>
       ELSE /\ trsData' = newTrs
            /\ batchIdData' = newIds
            /\ instanceTRSBuffer' = UploadAt(instanceTRSBuffer, newTrs, trsOffset, count * 16)
            /\ batchIdBuffer' = UploadAt(batchIdBuffer, newIds, instanceCount * 4, count * 4)
            /\ instanceCount' = instanceCount + count
            /\ ret' = [Ret("appendInstanceData", "none", NoEntry, startIndex)
                           EXCEPT !.req = <<count>>]
            /\ UNCHANGED <<atlasVars, commandVars, trackVars, remapVars, finalGpuVars,
                           remapFinalized, pendingRemapSegments, segsRecorded>>
    /\ UNCHANGED <<pluginVars, cullMgrVars, gpuVars>>

\* ------------------------------------------- addDrawCommandInstances
\* Variant: the call also adds count to the command's instanceCount in the
\* indirect table.
AddDrawCommandInstancesEager(commandIndex, count, firstTrsIndex) ==
    /\ HostTurn
    /\ IF commandIndex < 0 \/ commandIndex >= drawCommandCount
       THEN /\ ret' = Ret("addDrawCommandInstances", "ignored", NoEntry, 0)
            /\ UNCHANGED <<poolVars, segsRecorded>>
       ELSE /\ segsRecorded < MaxSegments
            /\ pendingRemapSegments' =
                   Append(pendingRemapSegments,
                          [cmdIdx |-> commandIndex, firstTrs |-> firstTrsIndex, count |-> count])
            /\ drawCommandInstanceCount' =
                   [drawCommandInstanceCount EXCEPT ![commandIndex + 1] = @ + count]
            /\ indirectDrawData' =
                   Put(indirectDrawData, commandIndex * 5 + 1,
                       At(indirectDrawData, commandIndex * 5 + 1) + count)
            /\ segsRecorded' = segsRecorded + 1
            /\ ret' = Ret("addDrawCommandInstances", "none", NoEntry, 0)
            /\ UNCHANGED <<atlasVars, instanceVars, drawCommandCount, meshBoundsData,
                           drawCommandFirstInstance, remapVars, finalGpuVars, remapFinalized>>
    /\ UNCHANGED <<pluginVars, cullMgrVars, gpuVars>>

AddDrawCommandInstances(commandIndex, count, firstTrsIndex) ==
    /\ HostTurn
    /\ IF commandIndex < 0 \/ commandIndex >= drawCommandCount
       THEN /\ ret' = Ret("addDrawCommandInstances", "ignored", NoEntry, 0)
            /\ UNCHANGED <<poolVars, segsRecorded>>
       ELSE /\ segsRecorded < MaxSegments
            /\ pendingRemapSegments' =
                   Append(pendingRemapSegments,
                          [cmdIdx |-> commandIndex, firstTrs |-> firstTrsIndex, count |-> count])
            /\ drawCommandInstanceCount' =
                   [drawCommandInstanceCount EXCEPT ![commandIndex + 1] = @ + count]
            /\ segsRecorded' = segsRecorded + 1
            /\ ret' = Ret("addDrawCommandInstances", "none", NoEntry, 0)
            /\ UNCHANGED <<atlasVars, instanceVars, commandVars, drawCommandFirstInstance,
                           remapVars, finalGpuVars, remapFinalized>>
    /\ UNCHANGED <<pluginVars, cullMgrVars, gpuVars>>

\* ---------------------------------------------- finalizeDrawCommands
RECURSIVE PendingTotal(_)
\* _pendingRemapSegments.reduce((sum, s) => sum + s.count, 0)
PendingTotal(segs) ==
    IF segs = <<>> THEN 0 ELSE Head(segs).count + PendingTotal(Tail(segs))

RECURSIVE SegmentsOfNewestFirst(_, _)
\* Variant: the segments of command c, the last recorded first.
SegmentsOfNewestFirst(segs, c) ==
    IF segs = <<>> THEN <<>>
    ELSE IF Head(segs).cmdIdx = c
         THEN SegmentsOfNewestFirst(Tail(segs), c)
                  \o <<[firstTrs |-> Head(segs).firstTrs, count |-> Head(segs).count]>>
         ELSE SegmentsOfNewestFirst(Tail(segs), c)

RECURSIVE SegmentsOf(_, _)
\* segmentsByCmd.get(c): the segments of command c, in recording order
SegmentsOf(segs, c) ==
    IF segs = <<>> THEN <<>>
    ELSE IF Head(segs).cmdIdx = c
         THEN <<[firstTrs |-> Head(segs).firstTrs, count |-> Head(segs).count]>>
                  \o SegmentsOf(Tail(segs), c)
         ELSE SegmentsOf(Tail(segs), c)

\* WriteSegment with the "+ i" dropped: every entry of a segment is its firstTrs.
WriteSegmentSameIndex(remap, base, seg, i) ==
    [k \in 1..Len(remap) |->
        IF k > base /\ k <= base + seg.count THEN seg.firstTrs ELSE remap[k]]

RECURSIVE WriteSegment(_, _, _, _)
\* remap[base + i] = seg.firstTrs + i, i in [0, seg.count)
WriteSegment(remap, base, seg, i) ==
    IF i >= seg.count THEN remap
    ELSE WriteSegment(Put(remap, base + i, seg.firstTrs + i), base, seg, i + 1)

RECURSIVE WriteSegments(_, _, _, _)
\* the inner loop over one command's segments: the remap and cmdInstanceCount
WriteSegments(remap, remapOffset, segments, cmdInstanceCount) ==
    IF segments = <<>> THEN [remap |-> remap, count |-> cmdInstanceCount]
    ELSE WriteSegments(WriteSegment(remap, remapOffset + cmdInstanceCount, Head(segments), 0),
                       remapOffset, Tail(segments), cmdInstanceCount + Head(segments).count)

\* FinalizedCommand without the firstInstance store.
FinalizedCommandCountOnly(indirect, cmdIdx, cmdInstanceCount, firstInstance) ==
    Put(indirect, cmdIdx * 5 + 1, cmdInstanceCount)

\* The indirect draw command of a command with segments: instanceCount and
\* firstInstance are rewritten.
FinalizedCommand(indirect, cmdIdx, cmdInstanceCount, firstInstance) ==
    Put(Put(indirect, cmdIdx * 5 + 1, cmdInstanceCount), cmdIdx * 5 + 4, firstInstance)

\* A command without segments: only the tracking arrays are reset.
EmptyCommand(acc, cmdIdx) ==
    [acc EXCEPT !.first = [@ EXCEPT ![cmdIdx + 1] = 0],
                !.count = [@ EXCEPT ![cmdIdx + 1] = 0]]

RECURSIVE BuildRemap(_, _, _)
\* The loop over commands in ascending index.  acc: remap, first, count
\* (the tracking arrays), indirect, remapOffset, n (drawCommandCount).
BuildRemap(acc, segs, cmdIdx) ==
    IF cmdIdx >= acc.n THEN acc
    ELSE LET segments == SegmentsOf(segs, cmdIdx) IN
         IF segments = <<>>
         THEN BuildRemap(EmptyCommand(acc, cmdIdx), segs, cmdIdx + 1)
         ELSE LET w == WriteSegments(acc.remap, acc.remapOffset, segments, 0) IN
              BuildRemap([acc EXCEPT
                              !.remap = w.remap,
                              !.first = [@ EXCEPT ![cmdIdx + 1] = acc.remapOffset],
                              !.count = [@ EXCEPT ![cmdIdx + 1] = w.count],
                              !.indirect = FinalizedCommand(@, cmdIdx, w.count, acc.remapOffset),
                              !.remapOffset = @ + w.count],
                         segs, cmdIdx + 1)

\* MapEntry indexing the map by the remap slot instead of the instance index.
MapEntryBySlot(map, remap, slot, cmdIdx) == Put(map, slot, cmdIdx)

\* trsIdx = remap[slot]; instanceDrawCmdMap[trsIdx] = cmdIdx
MapEntry(map, remap, slot, cmdIdx) == Put(map, At(remap, slot), cmdIdx)

RECURSIVE MapCommand(_, _, _, _, _, _)
\* the loop over i in [0, count) of one command, slot = firstInst + i
MapCommand(map, remap, firstInst, count, cmdIdx, i) ==
    IF i >= count THEN map
    ELSE MapCommand(MapEntry(map, remap, firstInst + i, cmdIdx),
                    remap, firstInst, count, cmdIdx, i + 1)

RECURSIVE BuildCullingMetadata(_, _, _)
\* meta: map (instanceDrawCmdMap), base (drawCmdBaseOffsets)
BuildCullingMetadata(meta, lay, cmdIdx) ==
    IF cmdIdx >= lay.n THEN meta
    ELSE LET firstInst == lay.first[cmdIdx + 1]
             count == lay.count[cmdIdx + 1]
         IN BuildCullingMetadata(
                [map |-> MapCommand(meta.map, lay.remap, firstInst, count, cmdIdx, 0),
                 base |-> Put(meta.base, cmdIdx, IF firstInst >= 0 THEN firstInst ELSE 0)],
                lay, cmdIdx + 1)

\* The layout finalizeDrawCommands computes from the host state.
Layout ==
    BuildRemap([remap |-> remapData, first |-> drawCommandFirstInstance,
                count |-> drawCommandInstanceCount, indirect |-> indirectDrawData,
                remapOffset |-> 0, n |-> drawCommandCount],
               pendingRemapSegments, 0)

\* Variant: a call that does not look at _remapFinalized.
FinalizeOutcomeUnguarded ==
    IF PendingTotal(pendingRemapSegments) = 0 THEN "empty"
    ELSE IF PendingTotal(pendingRemapSegments) > INITIAL_INSTANCE_CAPACITY THEN "remap"
    ELSE "none"

\* How a finalizeDrawCommands call ends in the current state.
FinalizeOutcome ==
    IF remapFinalized THEN "already"
    ELSE IF PendingTotal(pendingRemapSegments) = 0 THEN "empty"
    ELSE IF PendingTotal(pendingRemapSegments) > INITIAL_INSTANCE_CAPACITY THEN "remap"
    ELSE "none"

\* The value of _remapFinalized after a call that found it false.
FinalizedFlag(outcome) == TRUE

FinalizeDrawCommands ==
    LET outcome == FinalizeOutcome
        lay == Layout
        meta == BuildCullingMetadata([map |-> instanceDrawCmdMap, base |-> drawCmdBaseOffsets],
                                     lay, 0)
    IN
    /\ HostTurn
    /\ ret' = Ret("finalizeDrawCommands", outcome, NoEntry, 0)
    /\ IF outcome = "already"
       THEN UNCHANGED poolVars
       ELSE /\ remapFinalized' = FinalizedFlag(outcome)
            /\ IF outcome # "none"
               THEN UNCHANGED <<atlasVars, instanceVars, commandVars, trackVars, remapVars,
                                finalGpuVars, pendingRemapSegments>>
               ELSE /\ remapData' = lay.remap
                    /\ drawCommandFirstInstance' = lay.first
                    /\ drawCommandInstanceCount' = lay.count
                    /\ indirectDrawData' = lay.indirect
                    /\ remapCount' = lay.remapOffset
                    /\ instanceDrawCmdMap' = meta.map
                    /\ drawCmdBaseOffsets' = meta.base
                    /\ visibleIndicesBuffer' =
                           Upload(visibleIndicesBuffer, lay.remap, lay.remapOffset)
                    /\ indirectDrawGpuBuffer' =
                           Upload(indirectDrawGpuBuffer, lay.indirect, drawCommandCount * 5)
                    /\ instanceDrawCmdMapBuffer' =
                           Upload(instanceDrawCmdMapBuffer, meta.map, instanceCount)
                    /\ drawCmdBaseOffsetsBuffer' =
                           Upload(drawCmdBaseOffsetsBuffer, meta.base, drawCommandCount)
                    /\ meshBoundsBuffer' =
                           Upload(meshBoundsBuffer, meshBoundsData, drawCommandCount * 4)
                    /\ pendingRemapSegments' = <<>>
                    /\ UNCHANGED <<atlasVars, instanceVars, drawCommandCount, meshBoundsData>>
    /\ UNCHANGED <<pluginVars, cullMgrVars, gpuVars, segsRecorded>>

\* ------------------------------------------- setDrawCommandInstances
\* Stores instanceCount and firstInstance of one appended command on the host
\* and uploads the command's five words.
SetDrawCommandInstances(commandIndex, instCount, firstInstance) ==
    LET offset == commandIndex * 5
        newData == Put(Put(indirectDrawData, offset + 1, instCount), offset + 4, firstInstance)
    IN
    /\ HostTurn
    /\ IF commandIndex < 0 \/ commandIndex >= drawCommandCount
       THEN /\ ret' = Ret("setDrawCommandInstances", "ignored", NoEntry, 0)
            /\ UNCHANGED <<indirectDrawData, indirectDrawGpuBuffer>>
       ELSE /\ indirectDrawData' = newData
            /\ indirectDrawGpuBuffer' = UploadAt(indirectDrawGpuBuffer, newData, offset, 5)
            /\ ret' = Ret("setDrawCommandInstances", "none", NoEntry, 0)
    /\ UNCHANGED <<atlasVars, instanceVars, drawCommandCount, meshBoundsData, trackVars,
                   remapVars, visibleIndicesBuffer, instanceDrawCmdMapBuffer,
                   drawCmdBaseOffsetsBuffer, meshBoundsBuffer, remapFinalized,
                   pendingRemapSegments, pluginVars, cullMgrVars, gpuVars, segsRecorded>>

\* ------------------------------------------ updateIndirectDrawCommand
\* Adds a delta to the host instanceCount of a command slot (not below 0) and
\* uploads the whole host table.
UpdateIndirectDrawCommand(commandIndex, instanceCountDelta) ==
    LET offset == commandIndex * 5
        newData == Put(indirectDrawData, offset + 1,
                       Max(0, At(indirectDrawData, offset + 1) + instanceCountDelta))
    IN
    /\ HostTurn
    /\ IF commandIndex < 0 \/ commandIndex >= maxDrawCommands
       THEN /\ ret' = Ret("updateIndirectDrawCommand", "ignored", NoEntry, 0)
            /\ UNCHANGED <<indirectDrawData, indirectDrawGpuBuffer>>
       ELSE /\ indirectDrawData' = newData
            /\ indirectDrawGpuBuffer' = Upload(indirectDrawGpuBuffer, newData, Len(newData))
            /\ ret' = Ret("updateIndirectDrawCommand", "none", NoEntry, 0)
    /\ UNCHANGED <<atlasVars, instanceVars, drawCommandCount, meshBoundsData, trackVars,
                   remapVars, visibleIndicesBuffer, instanceDrawCmdMapBuffer,
                   drawCmdBaseOffsetsBuffer, meshBoundsBuffer, remapFinalized,
                   pendingRemapSegments, pluginVars, cullMgrVars, gpuVars, segsRecorded>>

\* ------------------------------------------------ getInstance, dispose
\* Variant: a getInstance that constructs a pool without looking at _instance.
GetInstanceAlwaysNew(engine) ==
    /\ HostTurn
    /\ IF ~engine
       THEN /\ ret' = Ret("getInstance", "throw", NoEntry, 0)
            /\ UNCHANGED <<poolVars, lifeVars>>
       ELSE /\ Len(pools) < MaxPools
            /\ vertexData' = Fill(INITIAL_VERTEX_CAPACITY * 6, 0)
            /\ indexData' = Fill(INITIAL_INDEX_CAPACITY, 0)
            /\ vertexCount' = 0
            /\ indexCount' = 0
            /\ trsData' = Fill(INITIAL_INSTANCE_CAPACITY * 16, 0)
            /\ batchIdData' = Fill(INITIAL_INSTANCE_CAPACITY * 4, 0)
            /\ instanceCount' = 0
            /\ indirectDrawData' = Fill(maxDrawCommands * 5, 0)
            /\ drawCommandCount' = 0
            /\ meshBoundsData' = Fill(maxDrawCommands * 4, 0)
            /\ remapData' = Fill(INITIAL_INSTANCE_CAPACITY, 0)
            /\ remapCount' = 0
            /\ remapFinalized' = FALSE
            /\ drawCommandFirstInstance' = <<>>
            /\ drawCommandInstanceCount' = <<>>
            /\ pendingRemapSegments' = <<>>
            /\ instanceDrawCmdMap' = Fill(INITIAL_INSTANCE_CAPACITY, 0)
            /\ drawCmdBaseOffsets' = Fill(maxDrawCommands, 0)
            /\ vertexAtlasBuffer' = Fill(INITIAL_VERTEX_CAPACITY * 6, 0)
            /\ indexAtlasBuffer' = Fill(INITIAL_INDEX_CAPACITY, 0)
            /\ instanceTRSBuffer' = Fill(INITIAL_INSTANCE_CAPACITY * 16, 0)
            /\ batchIdBuffer' = Fill(INITIAL_INSTANCE_CAPACITY * 4, 0)
            /\ indirectDrawGpuBuffer' = Fill(maxDrawCommands * 5, 0)
            /\ visibleIndicesBuffer' = Fill(INITIAL_INSTANCE_CAPACITY, 0)
            /\ instanceDrawCmdMapBuffer' = Fill(INITIAL_INSTANCE_CAPACITY, 0)
            /\ drawCmdBaseOffsetsBuffer' = Fill(maxDrawCommands, 0)
            /\ meshBoundsBuffer' = Fill(maxDrawCommands * 4, 0)
            /\ pools' = Append(pools, [buffers |-> "live", created |-> 1, destroyed |-> 0])
            /\ instance' = Len(pools) + 1
            /\ ret' = Ret("getInstance", "created", NoEntry, Len(pools) + 1)
    /\ UNCHANGED <<pluginVars, cullMgrVars, gpuVars, segsRecorded>>

\* GlobalBufferManager.getInstance(engine?): the pool in _instance, or, when
\* there is none, a new pool with its buffers (an error without an engine).
\* What the call returns is ret.start: the number of the pool.
GetInstance(engine) ==
    /\ HostTurn
    /\ IF instance # 0
       THEN /\ ret' = Ret("getInstance", "none", NoEntry, instance)
            /\ UNCHANGED <<poolVars, lifeVars>>
       ELSE IF ~engine
       THEN /\ ret' = Ret("getInstance", "throw", NoEntry, 0)
            /\ UNCHANGED <<poolVars, lifeVars>>
       ELSE /\ Len(pools) < MaxPools
            /\ vertexData' = Fill(INITIAL_VERTEX_CAPACITY * 6, 0)
            /\ indexData' = Fill(INITIAL_INDEX_CAPACITY, 0)
            /\ vertexCount' = 0
            /\ indexCount' = 0
            /\ trsData' = Fill(INITIAL_INSTANCE_CAPACITY * 16, 0)
            /\ batchIdData' = Fill(INITIAL_INSTANCE_CAPACITY * 4, 0)
            /\ instanceCount' = 0
            /\ indirectDrawData' = Fill(maxDrawCommands * 5, 0)
            /\ drawCommandCount' = 0
            /\ meshBoundsData' = Fill(maxDrawCommands * 4, 0)
            /\ remapData' = Fill(INITIAL_INSTANCE_CAPACITY, 0)
            /\ remapCount' = 0
            /\ remapFinalized' = FALSE
            /\ drawCommandFirstInstance' = <<>>
            /\ drawCommandInstanceCount' = <<>>
            /\ pendingRemapSegments' = <<>>
            /\ instanceDrawCmdMap' = Fill(INITIAL_INSTANCE_CAPACITY, 0)
            /\ drawCmdBaseOffsets' = Fill(maxDrawCommands, 0)
            /\ vertexAtlasBuffer' = Fill(INITIAL_VERTEX_CAPACITY * 6, 0)
            /\ indexAtlasBuffer' = Fill(INITIAL_INDEX_CAPACITY, 0)
            /\ instanceTRSBuffer' = Fill(INITIAL_INSTANCE_CAPACITY * 16, 0)
            /\ batchIdBuffer' = Fill(INITIAL_INSTANCE_CAPACITY * 4, 0)
            /\ indirectDrawGpuBuffer' = Fill(maxDrawCommands * 5, 0)
            /\ visibleIndicesBuffer' = Fill(INITIAL_INSTANCE_CAPACITY, 0)
            /\ instanceDrawCmdMapBuffer' = Fill(INITIAL_INSTANCE_CAPACITY, 0)
            /\ drawCmdBaseOffsetsBuffer' = Fill(maxDrawCommands, 0)
            /\ meshBoundsBuffer' = Fill(maxDrawCommands * 4, 0)
            /\ pools' = Append(pools, [buffers |-> "live", created |-> 1, destroyed |-> 0])
            /\ instance' = Len(pools) + 1
            /\ ret' = Ret("getInstance", "created", NoEntry, Len(pools) + 1)
    /\ UNCHANGED <<pluginVars, cullMgrVars, gpuVars, segsRecorded>>

\* dispose() of the pool constructed last: its device buffers are destroyed
\* (destroying a destroyed buffer has no effect), its host arrays are replaced
\* by empty ones (the culling metadata arrays and the bounds array are kept),
\* its counters and the pending segments are reset, and _instance is cleared.
Dispose ==
    LET p == Len(pools) IN
    /\ HostTurn
    /\ pools' = [pools EXCEPT ![p] =
                     IF @.buffers = "live"
                     THEN [@ EXCEPT !.buffers = "destroyed", !.destroyed = @ + 1]
                     ELSE @]
    /\ instanceTRSBuffer' = <<>>
    /\ batchIdBuffer' = <<>>
    /\ indirectDrawGpuBuffer' = <<>>
    /\ vertexAtlasBuffer' = <<>>
    /\ indexAtlasBuffer' = <<>>
    /\ visibleIndicesBuffer' = <<>>
    /\ instanceDrawCmdMapBuffer' = <<>>
    /\ drawCmdBaseOffsetsBuffer' = <<>>
    /\ meshBoundsBuffer' = <<>>
    /\ trsData' = <<>>
    /\ batchIdData' = <<>>
    /\ indirectDrawData' = <<>>
    /\ vertexData' = <<>>
    /\ indexData' = <<>>
    /\ remapData' = <<>>
    /\ instanceCount' = 0
    /\ vertexCount' = 0
    /\ indexCount' = 0
    /\ drawCommandCount' = 0
    /\ remapCount' = 0
    /\ remapFinalized' = FALSE
    /\ drawCommandFirstInstance' = <<>>
    /\ drawCommandInstanceCount' = <<>>
    /\ pendingRemapSegments' = <<>>
    /\ instance' = 0
    /\ ret' = Ret("dispose", "none", NoEntry, 0)
    /\ UNCHANGED <<meshBoundsData, instanceDrawCmdMap, drawCmdBaseOffsets,
                   pluginVars, cullMgrVars, gpuVars, segsRecorded>>

\* --------------------------------------------- IndirectRenderPlugin
\* initialize(): the pipeline objects and the culling manager are created.
Initialize ==
    /\ HostTurn
    /\ ~initialized
    /\ initialized' = TRUE
    /\ cullInitialized' = TRUE
    /\ ret' = Ret("initialize", "none", NoEntry, 0)
    /\ UNCHANGED <<poolVars, frameCount, submitted, bindGroup, uniformBuffer, gpuVars,
                   segsRecorded>>

\* The passes _executeIndirectPass records on its command encoder, in order.
\* The culling dispatch is disabled in the source, so the encoder holds the
\* render pass alone.
FramePasses(cmdCount) == <<[pass |-> "indirect-render-pass", draws |-> cmdCount]>>

\* RenderGuard without the isFinalized() check.
RenderGuardNoFinalized ==
    /\ initialized
    /\ instanceCount # 0
    /\ drawCommandCount # 0

\* Whether _executeIndirectPass passes its guards on the pool.
RenderGuard ==
    /\ initialized
    /\ remapFinalized
    /\ instanceCount # 0
    /\ drawCommandCount # 0

\* One frame callback.  surface: whether the canvas, its context and its
\* current texture are available ("error": the pipeline or the pass throws
\* and the catch block counts the frame).
ExecuteIndirectPass(surface) ==
    /\ HostTurn
    /\ frameCount < MaxFrames
    /\ IF ~RenderGuard
       THEN /\ submitted' = <<>>
            /\ frameCount' = frameCount
            /\ ret' = Ret("executeIndirectPass", "noop", NoEntry, 0)
       ELSE IF surface = "canvas"
       THEN /\ submitted' = <<>>
            /\ frameCount' = frameCount
            /\ ret' = Ret("executeIndirectPass", "bail", NoEntry, 0)
       ELSE IF surface # "ok"
       THEN /\ submitted' = <<>>
            /\ frameCount' = frameCount + 1
            /\ ret' = Ret("executeIndirectPass", "bail", NoEntry, 0)
       ELSE /\ submitted' = FramePasses(drawCommandCount)
            /\ frameCount' = frameCount + 1
            /\ ret' = Ret("executeIndirectPass", "none", NoEntry, 0)
    /\ UNCHANGED <<poolVars, initialized, cullMgrVars, gpuVars, segsRecorded>>

Surfaces == {"ok", "canvas", "context", "texture", "error"}

\* -------------------------------------------- ComputeCullingManager
\* rebuildCullingBindGroup() -> rebuildBindGroup(): binds the pool's buffers.
RebuildCullingBindGroup ==
    /\ HostTurn
    /\ bindGroup' = (bindGroup \/ cullInitialized)
    /\ ret' = Ret("rebuildCullingBindGroup", IF cullInitialized THEN "none" ELSE "ignored",
                  NoEntry, 0)
    /\ UNCHANGED <<poolVars, pluginVars, cullInitialized, uniformBuffer, gpuVars, segsRecorded>>

\* A view-projection matrix (16 numbers, as camera.getTransformationMatrix()
\* .toArray() returns them) whose six planes bound the box |x| <= w, |y| <= w,
\* 0 <= z <= w.
ViewProjection(w) == <<1, 0, 0, 0,  0, 1, 0, 0,  0, 0, 1, 0,  0, 0, 0, w>>

Cameras == {ViewProjection(20), ViewProjection(5)}

\* The six planes <<a, b, c, d>> extracted from the matrix m.
ExtractPlanes(m) ==
    <<<<At(m, 12) + At(m, 0), At(m, 13) + At(m, 1), At(m, 14) + At(m, 2), At(m, 15) + At(m, 3)>>,
      <<At(m, 12) - At(m, 0), At(m, 13) - At(m, 1), At(m, 14) - At(m, 2), At(m, 15) - At(m, 3)>>,
      <<At(m, 12) + At(m, 4), At(m, 13) + At(m, 5), At(m, 14) + At(m, 6), At(m, 15) + At(m, 7)>>,
      <<At(m, 12) - At(m, 4), At(m, 13) - At(m, 5), At(m, 14) - At(m, 6), At(m, 15) - At(m, 7)>>,
      <<At(m, 8), At(m, 9), At(m, 10), At(m, 11)>>,
      <<At(m, 12) - At(m, 8), At(m, 13) - At(m, 9), At(m, 14) - At(m, 10),
        At(m, 15) - At(m, 11)>>>>

\* inv = len > 1e-6 ? 1 / len : 0; the plane scaled by inv.
NormalizePlane(p) ==
    LET len == ISqrt(p[1] * p[1] + p[2] * p[2] + p[3] * p[3]) IN
    IF len > 0 THEN <<p[1] \div len, p[2] \div len, p[3] \div len, p[4] \div len>>
    ELSE <<0, 0, 0, 0>>

\* _updateUniforms: the contents written to the uniform buffer.
UpdateUniforms(camera, totalInstances, drawCmdCount) ==
    [frustumPlanes |-> [k \in 1..6 |-> NormalizePlane(ExtractPlanes(camera)[k])],
     totalInstances |-> totalInstances,
     drawCommandCount |-> drawCmdCount]

\* dispatchCulling(encoder, camera), and the submission of that encoder by its
\* caller: the reset pass starts on the device.
DispatchCulling(camera) ==
    /\ HostTurn
    /\ IF ~cullInitialized \/ ~bindGroup \/ instanceCount = 0 \/ drawCommandCount = 0
       THEN /\ ret' = Ret("dispatchCulling", "noop", NoEntry, 0)
            /\ UNCHANGED <<uniformBuffer, gpuVars>>
       ELSE /\ uniformBuffer' = UpdateUniforms(camera, instanceCount, drawCommandCount)
            /\ gpuPass' = "reset"
            /\ resetDone' = {}
            /\ cullPc' = Fill(instanceCount, "ready")
            /\ cullSlot' = Fill(instanceCount, 0)
            /\ prevPass' = [uniform |-> uniformBuffer,
                            counts |-> [k \in 1..drawCommandCount |->
                                           At(indirectDrawGpuBuffer, (k - 1) * 5 + 1)]]
            /\ ret' = Ret("dispatchCulling", "none", NoEntry, 0)
    /\ UNCHANGED <<poolVars, pluginVars, cullInitialized, bindGroup, segsRecorded>>

\* ---------------------------------------------------- culling.wgsl
\* Variant: a resetCounts invocation that leaves instanceCount as it finds it.
ResetCountsKeepsCount(cmdIdx) ==
    /\ gpuPass = "reset"
    /\ cmdIdx \in 0..(uniformBuffer.drawCommandCount - 1)
    /\ cmdIdx \notin resetDone
    /\ resetDone' = resetDone \cup {cmdIdx}
    /\ gpuPass' = IF resetDone' = 0..(uniformBuffer.drawCommandCount - 1)
                  THEN "cull" ELSE "reset"
    /\ UNCHANGED <<poolVars, pluginVars, cullMgrVars, cullPc, cullSlot, ret, segsRecorded,
                   prevPass>>

\* Variant: a resetCounts invocation that clears the five words of its command.
ResetCountsWholeCommand(cmdIdx) ==
    /\ gpuPass = "reset"
    /\ cmdIdx \in 0..(uniformBuffer.drawCommandCount - 1)
    /\ cmdIdx \notin resetDone
    /\ indirectDrawGpuBuffer' = SetRange(indirectDrawGpuBuffer, cmdIdx * 5, Fill(5, 0))
    /\ resetDone' = resetDone \cup {cmdIdx}
    /\ gpuPass' = IF resetDone' = 0..(uniformBuffer.drawCommandCount - 1)
                  THEN "cull" ELSE "reset"
    /\ UNCHANGED <<atlasVars, instanceVars, commandVars, trackVars, remapVars,
                   visibleIndicesBuffer, instanceDrawCmdMapBuffer, drawCmdBaseOffsetsBuffer,
                   meshBoundsBuffer, remapFinalized, pendingRemapSegments,
                   pluginVars, cullMgrVars, cullPc, cullSlot, ret, segsRecorded, prevPass>>

\* One invocation of resetCounts with cmdIdx < uniforms.drawCommandCount; the
\* cull pass begins when the reset pass has ended.
ResetCounts(cmdIdx) ==
    /\ gpuPass = "reset"
    /\ cmdIdx \in 0..(uniformBuffer.drawCommandCount - 1)
    /\ cmdIdx \notin resetDone
    /\ indirectDrawGpuBuffer' = Put(indirectDrawGpuBuffer, cmdIdx * 5 + 1, 0)
    /\ resetDone' = resetDone \cup {cmdIdx}
    /\ gpuPass' = IF resetDone' = 0..(uniformBuffer.drawCommandCount - 1)
                  THEN "cull" ELSE "reset"
    /\ UNCHANGED <<atlasVars, instanceVars, commandVars, trackVars, remapVars,
                   visibleIndicesBuffer, instanceDrawCmdMapBuffer, drawCmdBaseOffsetsBuffer,
                   meshBoundsBuffer, remapFinalized, pendingRemapSegments,
                   pluginVars, cullMgrVars, cullPc, cullSlot, ret, segsRecorded, prevPass>>

\* length(trs.colK.xyz)
ColumnLength(trs, k) ==
    ISqrt(At(trs, k * 4) * At(trs, k * 4) + At(trs, k * 4 + 1) * At(trs, k * 4 + 1)
          + At(trs, k * 4 + 2) * At(trs, k * 4 + 2))

\* (modelMatrix * vec4(center, 1.0)).xyz, modelMatrix column-major
WorldCenter(trs, c) ==
    [k \in 1..3 |-> At(trs, k - 1) * c[1] + At(trs, 4 + k - 1) * c[2]
                    + At(trs, 8 + k - 1) * c[3] + At(trs, 12 + k - 1)]

\* The frustum test: no plane has the sphere entirely behind it.
PassesFrustum(planes, center, worldRadius) ==
    \A k \in 1..6 :
        ~(planes[k][1] * center[1] + planes[k][2] * center[2] + planes[k][3] * center[3]
              + planes[k][4] < 0 - worldRadius)

\* Whether the invocation for instanceIdx reaches the atomicAdd.
CullVisible(instanceIdx) ==
    LET cmdIdx == At(instanceDrawCmdMapBuffer, instanceIdx)
        center == <<At(meshBoundsBuffer, cmdIdx * 4), At(meshBoundsBuffer, cmdIdx * 4 + 1),
                    At(meshBoundsBuffer, cmdIdx * 4 + 2)>>
        radius == At(meshBoundsBuffer, cmdIdx * 4 + 3)
        trs == SubSeq(instanceTRSBuffer, instanceIdx * 16 + 1, instanceIdx * 16 + 16)
        worldRadius == radius * Max(ColumnLength(trs, 0),
                                    Max(ColumnLength(trs, 1), ColumnLength(trs, 2)))
    IN PassesFrustum(uniformBuffer.frustumPlanes, WorldCenter(trs, center), worldRadius)


\* cullInstances up to its atomicAdd, for instanceIdx < uniforms.totalInstances:
\* a rejected instance returns, a visible one claims the next slot of its command.
CullInstancesClaim(instanceIdx) ==
    LET cmdIdx == At(instanceDrawCmdMapBuffer, instanceIdx)
        slot == At(indirectDrawGpuBuffer, cmdIdx * 5 + 1)
    IN
    /\ gpuPass = "cull"
    /\ instanceIdx \in 0..(uniformBuffer.totalInstances - 1)
    /\ cullPc[instanceIdx + 1] = "ready"
    /\ IF CullVisible(instanceIdx)
       THEN /\ indirectDrawGpuBuffer' = Put(indirectDrawGpuBuffer, cmdIdx * 5 + 1, slot + 1)
            /\ cullSlot' = [cullSlot EXCEPT ![instanceIdx + 1] = slot]
            /\ cullPc' = [cullPc EXCEPT ![instanceIdx + 1] = "claimed"]
       ELSE /\ cullPc' = [cullPc EXCEPT ![instanceIdx + 1] = "done"]
            /\ UNCHANGED <<indirectDrawGpuBuffer, cullSlot>>
    /\ UNCHANGED <<atlasVars, instanceVars, commandVars, trackVars, remapVars,
                   visibleIndicesBuffer, instanceDrawCmdMapBuffer, drawCmdBaseOffsetsBuffer,
                   meshBoundsBuffer, remapFinalized, pendingRemapSegments,
                   pluginVars, cullMgrVars, gpuPass, resetDone, ret, segsRecorded, prevPass>>

\* Where a store to buf[idx] can land: at idx, or, outside the buffer, nowhere
\* (-1) or on any element of the buffer.
StoreTargets(buf, idx) ==
    IF idx >= 0 /\ idx < Len(buf) THEN {idx} ELSE {-1} \cup (0..(Len(buf) - 1))

\* visibleIndices[baseOffset + slot] = instanceIdx
CullInstancesWrite(instanceIdx) ==
    LET cmdIdx == At(instanceDrawCmdMapBuffer, instanceIdx)
        baseOffset == At(drawCmdBaseOffsetsBuffer, cmdIdx)
    IN
    /\ gpuPass = "cull"
    /\ instanceIdx \in 0..(uniformBuffer.totalInstances - 1)
    /\ cullPc[instanceIdx + 1] = "claimed"
    /\ \E t \in StoreTargets(visibleIndicesBuffer, baseOffset + cullSlot[instanceIdx + 1]) :
           visibleIndicesBuffer' = Put(visibleIndicesBuffer, t, instanceIdx)
    /\ cullPc' = [cullPc EXCEPT ![instanceIdx + 1] = "done"]
    /\ UNCHANGED <<atlasVars, instanceVars, commandVars, trackVars, remapVars,
                   indirectDrawGpuBuffer, instanceDrawCmdMapBuffer, drawCmdBaseOffsetsBuffer,
                   meshBoundsBuffer, remapFinalized, pendingRemapSegments,
                   pluginVars, cullMgrVars, gpuPass, resetDone, cullSlot, ret, segsRecorded,
                   prevPass>>

\* Every invocation of the cull pass has returned.
CullPassEnded == gpuPass = "cull" /\ \A k \in 1..Len(cullPc) : cullPc[k] = "done"

\* The submitted command buffer completes: the queue is free for the host again.
QueueDone ==
    /\ CullPassEnded
    /\ gpuPass' = "idle"
    /\ UNCHANGED <<poolVars, pluginVars, cullMgrVars, resetDone, cullPc, cullSlot, ret,
                   segsRecorded, prevPass>>

\* ------------------------------------------------- CustomTileParser
\* Inputs: glTF meshes (POSITION triples and an index list, no NORMAL) and
\* chunks.  GltfQuadB differs from GltfQuad in its fourth vertex only, so the
\* two have one fingerprint.
GltfQuad == [positions |-> <<-1, 0, 0,  1, 0, 0,  0, 1, 0,  0, -1, 0>>,
             indices |-> <<0, 1, 2, 0, 1, 3>>]
GltfQuadB == [positions |-> <<-1, 0, 0,  1, 0, 0,  0, 1, 0,  0, -2, 0>>,
              indices |-> <<0, 1, 2, 0, 1, 3>>]
GltfDot == [positions |-> <<2, 0, 0>>, indices |-> <<0>>]
GltfDotB == [positions |-> <<3, 0, 0>>, indices |-> <<0>>]

\* A node: its mesh index (-1: none), its EXT_mesh_gpu_instancing extension
\* ("none": absent, "bad": without TRANSLATION or _BATCHID, "ok"), its instances.
Node(mesh, ext, kinds) == [mesh |-> mesh, ext |-> ext, batch |-> BatchOf(kinds)]

NearKind == [trs |-> TrsNear, id |-> 7]
FarKind == [trs |-> TrsFar, id |-> 9]

Chunks ==
    {[meshes |-> <<GltfQuad, GltfDot>>,
      nodes |-> <<Node(0, "ok", <<NearKind>>), Node(1, "ok", <<FarKind>>),
                  Node(0, "ok", <<NearKind>>)>>],
     [meshes |-> <<GltfQuadB>>, nodes |-> <<Node(0, "ok", <<FarKind>>)>>],
     [meshes |-> <<GltfDot>>, nodes |-> <<Node(0, "ok", <<NearKind>>)>>],
     [meshes |-> <<GltfDotB, GltfDot>>,
      nodes |-> <<Node(0, "ok", <<NearKind>>), Node(1, "bad", <<>>),
                  Node(2, "ok", <<NearKind>>), Node(-1, "ok", <<NearKind>>),
                  Node(1, "none", <<>>)>>],
     [meshes |-> <<>>, nodes |-> <<>>]}

\* x | 0 for a whole number x of magnitude below 2^31 (the positions of the
\* inputs are whole numbers of magnitude below 2^31 / 10000): x itself.
ToInt32(x) == x

\* _computeMeshFingerprint: the two counts and the first three vertex
\* positions, each coordinate as (p * 10000) | 0.
ComputeMeshFingerprint(positions, vCount, idxCount) ==
    <<vCount, idxCount>>
        \o [k \in 1..((IF vCount < 3 THEN vCount ELSE 3) * 3) |->
               ToInt32(positions[k] * 10000)]

\* position + normal interleaved, 6 floats per vertex; without a NORMAL
\* accessor the normal is (0, 1, 0).
Interleave(positions, vCount) ==
    [j \in 1..(vCount * 6) |->
        LET i == (j - 1) \div 6
            k == (j - 1) % 6
        IN IF k < 3 THEN positions[i * 3 + k + 1] ELSE IF k = 4 THEN 1 ELSE 0]

\* Variant: the entry of a new mesh is never put into the cache.
CacheStoreNever(cache, fp, entry) == cache

\* if (entry.drawCommandIndex >= 0) _globalMeshCache.set(fp, entry)
CacheStore(cache, fp, entry) ==
    IF entry.drawCommandIndex >= 0
    THEN [x \in DOMAIN cache \cup {fp} |-> IF x = fp THEN entry ELSE cache[x]]
    ELSE cache

\* pendingInstances (in insertion order): the node's instances join the group
\* of cmdIdx, which is created on first use.  fps: the fingerprints of the
\* meshes whose instances the group holds.
Accumulate(pending, cmdIdx, batch, fp) ==
    IF \E k \in 1..Len(pending) : pending[k].cmdIdx = cmdIdx
    THEN [k \in 1..Len(pending) |->
             IF pending[k].cmdIdx = cmdIdx
             THEN [pending[k] EXCEPT !.trsList = Append(@, batch),
                                     !.totalCount = @ + Len(batch.batchIds),
                                     !.fps = @ \cup {fp}]
             ELSE pending[k]]
    ELSE Append(pending, [cmdIdx |-> cmdIdx, trsList |-> <<batch>>,
                          totalCount |-> Len(batch.batchIds), fps |-> {fp}])

\* processTileGltf of a tileset detected as custom spec 2.0, up to its loop
\* over the nodes; without nodes it returns at once.
ProcessTileGltf(gltf) ==
    /\ HostTurn
    /\ tile.pc = "idle"
    /\ tile' = IF gltf.nodes = <<>> THEN IdleTile
               ELSE [IdleTile EXCEPT !.pc = "nodes", !.gltf = gltf]
    /\ UNCHANGED <<coreVars, globalMeshCache>>

\* The mesh of the node the loop of processTileGltf is at, and its fingerprint.
NodeMesh == tile.gltf.meshes[tile.gltf.nodes[tile.n + 1].mesh + 1]

NodeFingerprint ==
    ComputeMeshFingerprint(NodeMesh.positions, Len(NodeMesh.positions) \div 3,
                           Len(NodeMesh.indices))

\* One iteration of the loop over the nodes: the atlas entry is taken from
\* localMeshMap, from _globalMeshCache, or from appendMeshGeometry
\* (_extractMeshGeometryDeduped), and the node's instances are collected.
\* After the last node the upload loop begins.
VisitNode ==
    LET node == tile.gltf.nodes[tile.n + 1]
        skip == node.ext = "none" \/ node.mesh < 0
        local == node.mesh \in DOMAIN tile.localMeshMap
        present == node.mesh < Len(tile.gltf.meshes)
        cached == NodeFingerprint \in DOMAIN globalMeshCache
        miss == ~skip /\ ~local /\ present /\ ~cached
    IN
    /\ HostTurn
    /\ tile.pc = "nodes"
    /\ IF miss
       THEN AppendMeshGeometry(Interleave(NodeMesh.positions, Len(NodeMesh.positions) \div 3),
                               NodeMesh.indices)
       ELSE UNCHANGED coreVars
    /\ LET atlasEntry == IF skip THEN NoEntry
                         ELSE IF local THEN tile.localMeshMap[node.mesh]
                         ELSE IF ~present THEN NoEntry
                         ELSE IF cached THEN globalMeshCache[NodeFingerprint]
                         ELSE ret'.entry
           kept == ~skip /\ atlasEntry.drawCommandIndex >= 0
           newLocal == IF kept /\ ~local
                       THEN [x \in DOMAIN tile.localMeshMap \cup {node.mesh} |->
                                IF x = node.mesh THEN atlasEntry ELSE tile.localMeshMap[x]]
                       ELSE tile.localMeshMap
           newPending == IF kept /\ node.ext = "ok"
                         THEN Accumulate(tile.pendingInstances, atlasEntry.drawCommandIndex,
                                         node.batch, NodeFingerprint)
                         ELSE tile.pendingInstances
       IN
       /\ globalMeshCache' = IF miss THEN CacheStore(globalMeshCache, NodeFingerprint, ret'.entry)
                             ELSE globalMeshCache
       /\ tile' = IF tile.n + 1 < Len(tile.gltf.nodes)
                  THEN [tile EXCEPT !.n = @ + 1, !.localMeshMap = newLocal,
                                    !.pendingInstances = newPending]
                  ELSE IF newPending = <<>> THEN IdleTile
                  ELSE [tile EXCEPT !.pc = "upload", !.n = @ + 1, !.localMeshMap = newLocal,
                                    !.pendingInstances = newPending, !.g = 0, !.l = 0,
                                    !.firstInstance = instanceCount]

\* The group the upload loop of processTileGltf is at.
UploadGroup == tile.pendingInstances[tile.g + 1]

\* appendInstanceData of the next list of the group; the value it returns is
\* not looked at.
UploadInstances ==
    /\ HostTurn
    /\ tile.pc = "upload"
    /\ tile.l < Len(UploadGroup.trsList)
    /\ AppendInstanceData(UploadGroup.trsList[tile.l + 1].trsData,
                          UploadGroup.trsList[tile.l + 1].batchIds)
    /\ tile' = [tile EXCEPT !.l = @ + 1]
    /\ UNCHANGED globalMeshCache

\* addDrawCommandInstances(cmdIdx, pending.totalCount, firstInstance) once the
\* lists of the group are appended; then the next group, or the call returns.
RecordGroup ==
    /\ HostTurn
    /\ tile.pc = "upload"
    /\ tile.l = Len(UploadGroup.trsList)
    /\ AddDrawCommandInstances(UploadGroup.cmdIdx, UploadGroup.totalCount, tile.firstInstance)
    /\ tile' = IF tile.g + 1 = Len(tile.pendingInstances) THEN IdleTile
               ELSE [tile EXCEPT !.g = @ + 1, !.l = 0, !.firstInstance = instanceCount]
    /\ UNCHANGED globalMeshCache

\* -------------------------------------------- TilesetLoader, chunked
\* The chunk GLBs a manifest can list: a file name, stats.estimatedBytes
\* (0 when absent) and the glTF that parseGLB finds in the file.
GlbFill == [meshes |-> <<GltfQuad>>,
            nodes |-> <<Node(0, "ok", <<NearKind, NearKind, FarKind>>)>>]
GlbDotNear == [meshes |-> <<GltfDot>>, nodes |-> <<Node(0, "ok", <<NearKind>>)>>]
GlbDotFar == [meshes |-> <<GltfDot>>, nodes |-> <<Node(0, "ok", <<FarKind>>)>>]

ChunkFiles ==
    {[file |-> "a.glb", bytes |-> 0, gltf |-> GlbDotNear],
     [file |-> "b.glb", bytes |-> 10, gltf |-> GlbDotFar],
     [file |-> "c.glb", bytes |-> 30, gltf |-> GlbFill]}

Manifests == UNION {[1..n -> ChunkFiles] : n \in 0..MaxChunks}

\* c put behind the entries of the descending list s that are not smaller.
InsertBySize(s, c) ==
    LET k == Cardinality({j \in 1..Len(s) : s[j].bytes >= c.bytes})
    IN SubSeq(s, 1, k) \o <<c>> \o SubSeq(s, k + 1, Len(s))

RECURSIVE SortBySize(_)
\* [...chunks].sort((a, b) => (b.stats?.estimatedBytes || 0) -
\* (a.stats?.estimatedBytes || 0)): descending and stable.
SortBySize(chunks) ==
    IF chunks = <<>> THEN <<>>
    ELSE InsertBySize(SortBySize(SubSeq(chunks, 1, Len(chunks) - 1)), chunks[Len(chunks)])

\* sorted.slice(i, i + BATCH_SIZE), as positions of the sorted list.
BatchAt(sorted, i) ==
    (i + 1)..(IF i + BATCH_SIZE < Len(sorted) THEN i + BATCH_SIZE ELSE Len(sorted))

Settled(status) == status \in {"fulfilled", "rejected"}

\* Promise.allSettled(batch.map(...)) resolves: every promise of the batch is
\* fulfilled or rejected.
BatchDone(ld) == \A k \in BatchAt(ld.sorted, ld.i) : Settled(ld.chunk[k])

\* The loop of _loadChunkedGLBs from position i, up to its next await: the
\* _loadSingleChunk calls of the next batch are made and each waits for its
\* fetch; after the last batch finalizeDrawCommands() is called and the load
\* returns.
ContinueLoad(sorted, i, chunk, owner) ==
    IF i < Len(sorted)
    THEN /\ loader' = [pc |-> "await", sorted |-> sorted, i |-> i,
                       chunk |-> [k \in 1..Len(sorted) |->
                                     IF k \in BatchAt(sorted, i) THEN "fetching"
                                     ELSE chunk[k]],
                       owner |-> owner]
         /\ UNCHANGED <<coreVars, parserVars>>
    ELSE /\ FinalizeDrawCommands
         /\ loader' = [pc |-> "done", sorted |-> sorted, i |-> i, chunk |-> chunk,
                       owner |-> owner]
         /\ UNCHANGED parserVars

\* _loadChunkedGLBs once the manifest request has answered: without the
\* manifest it logs and returns; else it sorts the chunks by size and starts
\* the first batch.
LoadChunkedGLBs(manifestOk, chunks) ==
    /\ HostTurn
    /\ loader.pc = "idle"
    /\ IF ~manifestOk
       THEN /\ loader' = [loader EXCEPT !.pc = "no manifest"]
            /\ UNCHANGED <<coreVars, parserVars>>
       ELSE ContinueLoad(SortBySize(chunks), 0,
                         [k \in 1..Len(chunks) |-> "waiting"], <<>>)

\* _loadSingleChunk, fetch answered with !res.ok: the promise is rejected.
ChunkRejected(k) ==
    /\ loader.pc = "await"
    /\ k \in DOMAIN loader.chunk
    /\ loader.chunk[k] = "fetching"
    /\ loader' = [loader EXCEPT !.chunk[k] = "rejected"]
    /\ UNCHANGED <<coreVars, parserVars>>

\* What a step of processTileGltf does to the loader: a recorded segment
\* belongs to chunk k, and when the call has returned the promise of chunk k
\* is fulfilled.
ParserStep(k) ==
    loader' = [loader EXCEPT
                 !.chunk[k] = IF tile'.pc = "idle" THEN "fulfilled" ELSE "parsing",
                 !.owner = IF Len(pendingRemapSegments') > Len(pendingRemapSegments)
                           THEN Append(@, k) ELSE @]

\* The chunk whose processTileGltf call is in progress.
Parsing == CHOOSE k \in DOMAIN loader.chunk : loader.chunk[k] = "parsing"

\* _loadSingleChunk, file arrived: parseGLB, then processTileGltf begins.
LoadSingleChunk(k) ==
    /\ loader.pc = "await"
    /\ k \in DOMAIN loader.chunk
    /\ loader.chunk[k] = "fetching"
    /\ ProcessTileGltf(loader.sorted[k].gltf)
    /\ ParserStep(k)

\* The remaining steps of the processTileGltf call of the chunk being parsed.
ChunkVisitNode == VisitNode /\ ParserStep(Parsing)
ChunkUploadInstances == UploadInstances /\ ParserStep(Parsing)
ChunkRecordGroup == RecordGroup /\ ParserStep(Parsing)

\* The await of Promise.allSettled returns: the loop goes on with the next
\* batch, or ends and finalizes.
BatchSettled ==
    /\ HostTurn
    /\ loader.pc = "await"
    /\ tile.pc = "idle"
    /\ BatchDone(loader)
    /\ ContinueLoad(loader.sorted, loader.i + BATCH_SIZE, loader.chunk, loader.owner)

\* ------------------------------------------------------ specifications
\* Arguments of addDrawCommandInstances: -1 is the index of a failed mesh
\* append; a segment that starts at the last slot with count 2 runs past the
\* capacity.
CommandArgs == -1..(maxDrawCommands - 1)
SegCounts == 1..MaxSegCount
FirstTrsArgs == 0..(INITIAL_INSTANCE_CAPACITY - 1)

\* Batches of one kind of instance (their contents do not matter to the layout).
PlainBatches == {BatchOf([i \in 1..n |-> [trs |-> TrsNear, id |-> 7]]) : n \in 1..MaxBatch}

\* Spec: the ingest operations and finalize, with every segment argument.
Next ==
    \/ AppendMeshGeometry(MeshPoint.vertices, MeshPoint.indices) /\ UNCHANGED <<parserVars, lifeVars, loaderVars>>
    \/ /\ \E b \in PlainBatches : AppendInstanceData(b.trsData, b.batchIds)
       /\ UNCHANGED <<parserVars, lifeVars, loaderVars>>
    \/ /\ \E c \in CommandArgs, n \in SegCounts, f \in FirstTrsArgs :
              AddDrawCommandInstances(c, n, f)
       /\ UNCHANGED <<parserVars, lifeVars, loaderVars>>
    \/ FinalizeDrawCommands /\ UNCHANGED <<parserVars, lifeVars, loaderVars>>

Spec == Init /\ [][Next]_vars

\* SpecAppend: the two append operations with every mesh and every batch, so
\* that each capacity (vertex, index, draw command, instance) is exceeded.
NextAppend ==
    \/ /\ \E m \in Meshes : AppendMeshGeometry(m.vertices, m.indices)
       /\ UNCHANGED <<parserVars, lifeVars, loaderVars>>
    \/ /\ \E b \in Batches : AppendInstanceData(b.trsData, b.batchIds)
       /\ UNCHANGED <<parserVars, lifeVars, loaderVars>>

SpecAppend == Init /\ [][NextAppend]_vars

\* Batches of one instance, of either kind.
UnitBatches == {BatchOf(<<k>>) : k \in InstanceKinds}

\* SpecFrame: loading as the ingest paths do it (the segment recorded for the
\* instances just appended or for one instance of them), finalize, and the
\* render driver.
NextFrame ==
    \/ AppendMeshGeometry(MeshPoint.vertices, MeshPoint.indices) /\ UNCHANGED <<parserVars, lifeVars, loaderVars>>
    \/ /\ \E b \in PlainBatches : AppendInstanceData(b.trsData, b.batchIds)
       /\ UNCHANGED <<parserVars, lifeVars, loaderVars>>
    \/ /\ \E f \in FirstTrsArgs : AddDrawCommandInstances(0, 1, f)
       /\ UNCHANGED <<parserVars, lifeVars, loaderVars>>
    \/ FinalizeDrawCommands /\ UNCHANGED <<parserVars, lifeVars, loaderVars>>
    \/ Initialize /\ UNCHANGED <<parserVars, lifeVars, loaderVars>>
    \/ /\ \E surface \in Surfaces : ExecuteIndirectPass(surface)
       /\ UNCHANGED <<parserVars, lifeVars, loaderVars>>

SpecFrame == Init /\ [][NextFrame]_vars

\* SpecCull: the plugin is initialized, the pool is loaded (a segment is
\* recorded for the instance appended last, as the loaders do) and finalized,
\* the culling bind group is built (after finalizeDrawCommands, as
\* rebuildBindGroup requires), and culling dispatches run with their device
\* threads.
Loading == initialized /\ ~bindGroup

NextCull ==
    \/ Initialize /\ UNCHANGED <<parserVars, lifeVars, loaderVars>>
    \/ /\ Loading /\ AppendMeshGeometry(MeshPoint.vertices, MeshPoint.indices)
       /\ UNCHANGED <<parserVars, lifeVars, loaderVars>>
    \/ /\ Loading /\ \E b \in UnitBatches : AppendInstanceData(b.trsData, b.batchIds)
       /\ UNCHANGED <<parserVars, lifeVars, loaderVars>>
    \/ /\ Loading /\ instanceCount > 0 /\ \E c \in 0..(maxDrawCommands - 1) :
              AddDrawCommandInstances(c, 1, instanceCount - 1)
       /\ UNCHANGED <<parserVars, lifeVars, loaderVars>>
    \/ /\ Loading /\ FinalizeDrawCommands
       /\ UNCHANGED <<parserVars, lifeVars, loaderVars>>
    \/ /\ Loading /\ remapFinalized /\ RebuildCullingBindGroup
       /\ UNCHANGED <<parserVars, lifeVars, loaderVars>>
    \/ /\ bindGroup /\ \E camera \in Cameras : DispatchCulling(camera)
       /\ UNCHANGED <<parserVars, lifeVars, loaderVars>>
    \/ /\ \E c \in 0..(maxDrawCommands - 1) : ResetCounts(c)
       /\ UNCHANGED <<parserVars, lifeVars, loaderVars>>
    \/ /\ \E i \in 0..(INITIAL_INSTANCE_CAPACITY - 1) : CullInstancesClaim(i)
       /\ UNCHANGED <<parserVars, lifeVars, loaderVars>>
    \/ /\ \E i \in 0..(INITIAL_INSTANCE_CAPACITY - 1) : CullInstancesWrite(i)
       /\ UNCHANGED <<parserVars, lifeVars, loaderVars>>
    \/ QueueDone /\ UNCHANGED <<parserVars, lifeVars, loaderVars>>

SpecCull == Init /\ [][NextCull]_vars

\* The direct writers of the indirect table next to the ingest operations and
\* finalize.  updateIndirectDrawCommand accepts every slot below
\* maxDrawCommands, appended or not.
LegacyDeltas == {-1, 1}

NextLegacy ==
    \/ AppendMeshGeometry(MeshPoint.vertices, MeshPoint.indices) /\ UNCHANGED <<parserVars, lifeVars, loaderVars>>
    \/ AppendInstanceData(TrsNear, <<7>>) /\ UNCHANGED <<parserVars, lifeVars, loaderVars>>
    \/ /\ \E c \in 0..(maxDrawCommands - 1) : AddDrawCommandInstances(c, 1, 0)
       /\ UNCHANGED <<parserVars, lifeVars, loaderVars>>
    \/ FinalizeDrawCommands /\ UNCHANGED <<parserVars, lifeVars, loaderVars>>
    \/ /\ \E c \in CommandArgs : SetDrawCommandInstances(c, MaxInstanceArg, 1)
       /\ UNCHANGED <<parserVars, lifeVars, loaderVars>>
    \/ /\ \E c \in -1..maxDrawCommands, d \in LegacyDeltas :
              /\ (c >= 0 /\ c < maxDrawCommands) =>
                     At(indirectDrawData, c * 5 + 1) + d <= MaxInstanceArg
              /\ UpdateIndirectDrawCommand(c, d)
       /\ UNCHANGED <<parserVars, lifeVars, loaderVars>>

SpecLegacy == Init /\ [][NextLegacy]_vars

\* SpecTiles: chunks handed to one CustomTileParser, one after the other;
\* processTileGltf is synchronous, so nothing else touches the pool meanwhile.
NextTiles ==
    \/ /\ \E gltf \in Chunks : ProcessTileGltf(gltf)
       /\ UNCHANGED <<lifeVars, loaderVars>>
    \/ VisitNode /\ UNCHANGED <<lifeVars, loaderVars>>
    \/ UploadInstances /\ UNCHANGED <<lifeVars, loaderVars>>
    \/ RecordGroup /\ UNCHANGED <<lifeVars, loaderVars>>

SpecTiles == Init /\ [][NextTiles]_vars

\* SpecChunks: one _loadChunkedGLBs call; the fetches of a batch answer in any
\* order, each with the file or with an error status.
NextChunks ==
    \/ /\ \E ok \in BOOLEAN, chunks \in Manifests : LoadChunkedGLBs(ok, chunks)
       /\ UNCHANGED lifeVars
    \/ /\ \E k \in 1..MaxChunks : ChunkRejected(k)
       /\ UNCHANGED lifeVars
    \/ /\ \E k \in 1..MaxChunks : LoadSingleChunk(k)
       /\ UNCHANGED lifeVars
    \/ ChunkVisitNode /\ UNCHANGED lifeVars
    \/ ChunkUploadInstances /\ UNCHANGED lifeVars
    \/ ChunkRecordGroup /\ UNCHANGED lifeVars
    \/ BatchSettled /\ UNCHANGED lifeVars

SpecChunks == Init /\ [][NextChunks]_vars

\* SpecPass: SpecCull with one camera and with the render driver's frame
\* callback, so that a reset pass, a cull pass and a render pass follow each
\* other on a loaded and finalized pool.
NextPass ==
    \/ Initialize /\ UNCHANGED <<parserVars, lifeVars, loaderVars>>
    \/ /\ Loading /\ AppendMeshGeometry(MeshPoint.vertices, MeshPoint.indices)
       /\ UNCHANGED <<parserVars, lifeVars, loaderVars>>
    \/ /\ Loading /\ \E b \in UnitBatches : AppendInstanceData(b.trsData, b.batchIds)
       /\ UNCHANGED <<parserVars, lifeVars, loaderVars>>
    \/ /\ Loading /\ instanceCount > 0 /\ \E c \in 0..(maxDrawCommands - 1) :
              AddDrawCommandInstances(c, 1, instanceCount - 1)
       /\ UNCHANGED <<parserVars, lifeVars, loaderVars>>
    \/ /\ Loading /\ FinalizeDrawCommands
       /\ UNCHANGED <<parserVars, lifeVars, loaderVars>>
    \/ /\ Loading /\ remapFinalized /\ RebuildCullingBindGroup
       /\ UNCHANGED <<parserVars, lifeVars, loaderVars>>
    \/ /\ bindGroup /\ DispatchCulling(ViewProjection(20))
       /\ UNCHANGED <<parserVars, lifeVars, loaderVars>>
    \/ /\ \E c \in 0..(maxDrawCommands - 1) : ResetCounts(c)
       /\ UNCHANGED <<parserVars, lifeVars, loaderVars>>
    \/ /\ \E i \in 0..(INITIAL_INSTANCE_CAPACITY - 1) : CullInstancesClaim(i)
       /\ UNCHANGED <<parserVars, lifeVars, loaderVars>>
    \/ /\ \E i \in 0..(INITIAL_INSTANCE_CAPACITY - 1) : CullInstancesWrite(i)
       /\ UNCHANGED <<parserVars, lifeVars, loaderVars>>
    \/ QueueDone /\ UNCHANGED <<parserVars, lifeVars, loaderVars>>
    \/ /\ bindGroup /\ ExecuteIndirectPass("ok")
       /\ UNCHANGED <<parserVars, lifeVars, loaderVars>>

SpecPass == Init /\ [][NextPass]_vars

\* SpecLife: the life of the singleton: getInstance with and without an
\* engine, the ingest operations and finalize on the pool it returns, dispose.
NextLife ==
    \/ /\ \E engine \in BOOLEAN : GetInstance(engine)
       /\ UNCHANGED <<parserVars, loaderVars>>
    \/ Dispose /\ UNCHANGED <<parserVars, loaderVars>>
    \/ /\ instance # 0 /\ AppendMeshGeometry(MeshPoint.vertices, MeshPoint.indices)
       /\ UNCHANGED <<parserVars, lifeVars, loaderVars>>
    \/ /\ instance # 0 /\ AppendInstanceData(TrsNear, <<7>>)
       /\ UNCHANGED <<parserVars, lifeVars, loaderVars>>
    \/ /\ instance # 0 /\ AddDrawCommandInstances(0, 1, 0)
       /\ UNCHANGED <<parserVars, lifeVars, loaderVars>>
    \/ /\ instance # 0 /\ FinalizeDrawCommands
       /\ UNCHANGED <<parserVars, lifeVars, loaderVars>>

SpecLife == Init /\ [][NextLife]_vars

\* ------------------------------------------------------------- claims
\* a[i] read as the source reads it: outside the array the value is undefined.
Get(a, i) == IF i >= 0 /\ i < Len(a) THEN a[i + 1] ELSE -1

\* The last host call was a finalizeDrawCommands that built the layout.
FinalizeBuilt == ret.op = "finalizeDrawCommands" /\ ret.log = "none"

Commands == 0..(drawCommandCount - 1)

\* instance_count[c] and first_instance[c] of an indirect draw table
InstanceCountOf(indirect, c) == Get(indirect, c * 5 + 1)
FirstInstanceOf(indirect, c) == Get(indirect, c * 5 + 4)

\* remap[first_instance[c] + i], i in [0, instance_count[c])
Region(remap, indirect, c) ==
    [i \in 1..InstanceCountOf(indirect, c) |->
        Get(remap, FirstInstanceOf(indirect, c) + i - 1)]

\* The slots [first_instance[c], first_instance[c] + instance_count[c])
Slots(indirect, c) ==
    {FirstInstanceOf(indirect, c) + i : i \in 0..(InstanceCountOf(indirect, c) - 1)}

RECURSIVE Recorded(_, _)
\* firstTrs + j, j in [0, count), of the segments recorded for c, in order
Recorded(segs, c) ==
    IF segs = <<>> THEN <<>>
    ELSE (IF Head(segs).cmdIdx = c
          THEN [j \in 1..Head(segs).count |-> Head(segs).firstTrs + j - 1]
          ELSE <<>>) \o Recorded(Tail(segs), c)

RECURSIVE SumCounts(_)
SumCounts(segs) == IF segs = <<>> THEN 0 ELSE Head(segs).count + SumCounts(Tail(segs))

\* Scenario S2: 3 instances for cmd0 from 0, 2 for cmd1 from 3, 4 for cmd0 from 5.
S2Segments == <<[cmdIdx |-> 0, firstTrs |-> 0, count |-> 3],
                [cmdIdx |-> 1, firstTrs |-> 3, count |-> 2],
                [cmdIdx |-> 0, firstTrs |-> 5, count |-> 4]>>

S2Layout ==
    BuildRemap([remap |-> Fill(9, 0), first |-> <<-1, -1>>, count |-> <<7, 2>>,
                indirect |-> <<1, 0, 0, 0, 0, 1, 0, 1, 1, 0>>, remapOffset |-> 0, n |-> 2],
               S2Segments, 0)

S2Expected ==
    /\ S2Layout.remap = <<0, 1, 2, 5, 6, 7, 8, 3, 4>>
    /\ Region(S2Layout.remap, S2Layout.indirect, 0) = <<0, 1, 2, 5, 6, 7, 8>>
    /\ Region(S2Layout.remap, S2Layout.indirect, 1) = <<3, 4>>

\* C1: after a finalize that builds the layout, every command's remap
\* subrange (host array and device buffer) holds the instance indices of the
\* segments recorded for it, concatenated in recording order; the S2 trace
\* lays out as [0,1,2,5,6,7,8] for cmd0 and [3,4] for cmd1.
C1_FinalizeContiguity ==
    [][FinalizeBuilt' =>
          /\ \A c \in Commands :
                /\ Region(remapData', indirectDrawData', c)
                       = Recorded(pendingRemapSegments, c)
                /\ Region(visibleIndicesBuffer', indirectDrawGpuBuffer', c)
                       = Recorded(pendingRemapSegments, c)
          /\ S2Expected]_vars

\* C1 witness: command 0 was given the non-adjacent instances 0 and 2 by two
\* segments recorded around a segment of command 1.
C1_Witness ==
    /\ FinalizeBuilt
    /\ drawCommandCount = 2
    /\ Region(visibleIndicesBuffer, indirectDrawGpuBuffer, 0) = <<0, 2>>
    /\ Region(visibleIndicesBuffer, indirectDrawGpuBuffer, 1) = <<1>>

CoveredBy(segs, d, t) ==
    \E k \in 1..Len(segs) :
        /\ segs[k].cmdIdx = d
        /\ t >= segs[k].firstTrs
        /\ t < segs[k].firstTrs + segs[k].count

C4_Original ==
    (remapFinalized /\ remapCount > 0) =>
        /\ \A r \in 0..(instanceCount - 1) : \A c \in Commands :
               (Get(instanceDrawCmdMapBuffer, r) = c)
                   <=> (\E i \in 1..InstanceCountOf(indirectDrawGpuBuffer, c) :
                            Region(visibleIndicesBuffer, indirectDrawGpuBuffer, c)[i] = r)
        /\ instanceCount = remapCount

\* C9 as stated: a finalize called while the pending segments total zero
\* instances leaves isFinalized false.
C9_Original ==
    [][(/\ ret'.op = "finalizeDrawCommands"
        /\ ~remapFinalized
        /\ SumCounts(pendingRemapSegments) = 0) => ~remapFinalized']_vars

\* The finalized instance_count[c]: the host's indirect table, which the
\* device never writes.
FinalizedCount(c) == InstanceCountOf(indirectDrawData, c)

\* C5 as stated: during and after the cull pass that follows a reset, on a
\* pool whose layout was built, the device's instance_count[c] is at most the
\* finalized instance_count[c], and every slot claimed by an atomic increment
\* lies inside the region of the command incremented.
C5_Original ==
    (gpuPass = "cull" /\ remapCount > 0) =>
        /\ \A c \in Commands : InstanceCountOf(indirectDrawGpuBuffer, c) <= FinalizedCount(c)
        /\ \A i \in 0..(Len(cullPc) - 1) :
               cullPc[i + 1] = "claimed"
                   => cullSlot[i + 1] < FinalizedCount(At(instanceDrawCmdMapBuffer, i))

\* The instances in the live post-cull region of command c.
LiveRegion(c) ==
    {Get(visibleIndicesBuffer, FirstInstanceOf(indirectDrawGpuBuffer, c) + k) :
        k \in 0..(InstanceCountOf(indirectDrawGpuBuffer, c) - 1)}

\* C6 as stated: when the cull pass has ended, on a pool whose layout was
\* built, an instance that passes the frustum test is in the live region of
\* its command, and an instance that fails it is not.
C6_Original ==
    (CullPassEnded /\ remapCount > 0) =>
        \A i \in 0..(uniformBuffer.totalInstances - 1) :
            CullVisible(i) <=> (i \in LiveRegion(At(instanceDrawCmdMapBuffer, i)))

\* C7 as stated: a submitted frame holds the reset pass, the cull pass and the
\* render pass, in this order, on its one encoder.
C7_Original ==
    submitted # <<>> =>
        [k \in 1..Len(submitted) |-> submitted[k].pass]
            = <<"cull-reset", "cull-frustum", "indirect-render-pass">>

ExceedsCapacity ==
    \/ /\ ret'.op = "appendMeshGeometry"
       /\ \/ vertexCount + ret'.req[1] > INITIAL_VERTEX_CAPACITY
          \/ indexCount + ret'.req[2] > INITIAL_INDEX_CAPACITY
          \/ drawCommandCount >= maxDrawCommands
    \/ /\ ret'.op = "appendInstanceData"
       /\ instanceCount + ret'.req[1] > INITIAL_INSTANCE_CAPACITY

\* C10: an append that would exceed a capacity leaves every cursor, count,
\* table and buffer of the pool as it was.
C10_FailedAppendWritesNothing ==
    [][ExceedsCapacity => UNCHANGED poolVars]_vars

\* C10 witness: a mesh append was refused on the index capacity while the
\* vertex atlas still had room, on a pool that already holds geometry.
C10_Witness ==
    /\ ret.op = "appendMeshGeometry"
    /\ ret.log = "index"
    /\ ret.entry.drawCommandIndex = -1
    /\ vertexCount > 0
    /\ vertexCount + ret.req[1] <= INITIAL_VERTEX_CAPACITY
    /\ drawCommandCount < maxDrawCommands

\* ---------------------------------------------------------------- C11
\* The start indices a successful appendInstanceData of a non-empty batch can
\* return.
SuccessfulStarts == 0..(INITIAL_INSTANCE_CAPACITY - 1)

\* C11: an append that exceeds a capacity returns an outcome no successful
\* append returns: a mesh entry with drawCommandIndex -1, or an instance
\* result that is not the start index of a successful append.
C11_Original ==
    [][ExceedsCapacity =>
          IF ret'.op = "appendMeshGeometry"
          THEN ret'.entry.drawCommandIndex = -1
          ELSE ret'.start \notin SuccessfulStarts]_vars

\* ---------------------------------------------------------------- C12
\* The five words of command c in an indirect table.
CommandWords(indirect, c) == [w \in 0..4 |-> Get(indirect, c * 5 + w)]

\* The sum of the index counts of the commands below c.
RECURSIVE IndexCountBelow(_, _)
IndexCountBelow(indirect, c) ==
    IF c <= 0 THEN 0
    ELSE IndexCountBelow(indirect, c - 1) + Get(indirect, (c - 1) * 5)

\* C12: a successful appendMeshGeometry of v vertices and n indices, as command
\* k, advances the vertex cursor by v and the index cursor by n, makes the
\* command count k + 1, writes command k as index_count n, instance_count 0,
\* first_index = the index cursor before, base_vertex = the vertex cursor
\* before, first_instance 0, returns those offsets, and leaves the commands
\* below k as they were; the cursors start at 0 with no command, and every
\* first_index is the sum of the index counts of the commands before it, the
\* index cursor the sum of all of them.
C12_AtlasOffsetsAccumulate ==
    [][(ret'.op = "appendMeshGeometry" /\ ~ExceedsCapacity) =>
          LET k == drawCommandCount
              v == ret'.req[1]
              n == ret'.req[2]
          IN
          /\ k = 0 => (vertexCount = 0 /\ indexCount = 0)
          /\ vertexCount' = vertexCount + v
          /\ indexCount' = indexCount + n
          /\ drawCommandCount' = k + 1
          /\ CommandWords(indirectDrawData', k) =
                 [w \in 0..4 |-> At(<<n, 0, indexCount, vertexCount, 0>>, w)]
          /\ ret'.entry = [drawCommandIndex |-> k, baseVertex |-> vertexCount,
                           firstIndex |-> indexCount, indexCount |-> n]
          /\ \A j \in 0..(k - 1) :
                 CommandWords(indirectDrawData', j) = CommandWords(indirectDrawData, j)
          /\ \A j \in 0..k :
                 Get(indirectDrawData', j * 5 + 2) = IndexCountBelow(indirectDrawData', j)
          /\ indexCount' = IndexCountBelow(indirectDrawData', k + 1)]_vars

\* C12 witness: a second mesh was appended behind one of 4 vertices and 6
\* indices, and its command starts at index 6 and vertex 4.
C12_Witness ==
    /\ ret.op = "appendMeshGeometry"
    /\ ret.log = "none"
    /\ ret.entry.drawCommandIndex = 1
    /\ ret.entry.firstIndex = 6
    /\ ret.entry.baseVertex = 4
    /\ drawCommandCount = 2
    /\ Get(indirectDrawData, 1 * 5 + 3) = 4

\* ---------------------------------------------------------------- C13
\* Record i of an instance store: its 16 transform floats and its identifier
\* (identifiers are kept at a stride of 4 words).
InstanceRecord(trs, ids, i) ==
    [trs |-> [k \in 1..16 |-> Get(trs, i * 16 + k - 1)], id |-> Get(ids, i * 4)]

BlankRecord == [trs |-> Fill(16, 0), id |-> 0]

InstanceSlots == 0..(INITIAL_INSTANCE_CAPACITY - 1)

\* C13: an appendInstanceData of n records that fits the capacity returns the
\* instance count before the call (the sum of the sizes of the batches
\* appended before it: every record below it is an appended one and every
\* record from it on is still blank), makes the instance count that value
\* plus n, writes its records at exactly the indices [start, start + n) of the
\* host arrays and of the device buffers, and leaves every other record as it
\* was.
C13_InstanceAppendDense ==
    [][(ret'.op = "appendInstanceData" /\ ~ExceedsCapacity) =>
          LET n == ret'.req[1]
              start == ret'.start
          IN
          /\ start = instanceCount
          /\ instanceCount' = instanceCount + n
          /\ \A i \in InstanceSlots :
                 /\ i < start =>
                        /\ InstanceRecord(trsData, batchIdData, i) \in InstanceKinds
                        /\ InstanceRecord(trsData', batchIdData', i) =
                               InstanceRecord(trsData, batchIdData, i)
                        /\ InstanceRecord(instanceTRSBuffer', batchIdBuffer', i) =
                               InstanceRecord(instanceTRSBuffer, batchIdBuffer, i)
                 /\ i >= start => InstanceRecord(trsData, batchIdData, i) = BlankRecord
                 /\ (i >= start /\ i < start + n) =>
                        /\ InstanceRecord(trsData', batchIdData', i) \in InstanceKinds
                        /\ InstanceRecord(instanceTRSBuffer', batchIdBuffer', i) =
                               InstanceRecord(trsData', batchIdData', i)
                 /\ i >= start + n =>
                        /\ InstanceRecord(trsData', batchIdData', i) = BlankRecord
                        /\ InstanceRecord(instanceTRSBuffer', batchIdBuffer', i) = BlankRecord
          /\ Cardinality({i \in InstanceSlots :
                 InstanceRecord(trsData', batchIdData', i) # BlankRecord}) = instanceCount']_vars

\* C13 witness: a second batch, of two records, was appended behind a batch of
\* one record and got start index 1.
C13_Witness ==
    /\ ret.op = "appendInstanceData"
    /\ ret.log = "none"
    /\ ret.req = <<2>>
    /\ ret.start = 1
    /\ instanceCount = 3
    /\ InstanceRecord(trsData, batchIdData, 2) \in InstanceKinds

\* ---------------------------------------------------------------- C14
\* What a finalize publishes: the remap buffer, the indirect draw table, the
\* instance->command map and the base-offset table, on the host and on the
\* device, and the phase.
FinalizedLayout ==
    <<remapData, remapCount, visibleIndicesBuffer, indirectDrawData, indirectDrawGpuBuffer,
      instanceDrawCmdMap, instanceDrawCmdMapBuffer, drawCmdBaseOffsets,
      drawCmdBaseOffsetsBuffer, remapFinalized>>

\* C14: a finalizeDrawCommands call on a pool that an earlier call has
\* finalized with a layout leaves the remap buffer, the indirect draw table,
\* the instance->command map, the base-offset table and the phase unchanged,
\* whatever segments were recorded since.
C14_FinalizeIdempotent ==
    [][(ret'.op = "finalizeDrawCommands" /\ remapFinalized /\ remapCount > 0) =>
          UNCHANGED FinalizedLayout]_vars

\* C14 witness: a second finalize ran on a finalized pool with segments
\* recorded after the first one still pending.
C14_Witness ==
    /\ ret.op = "finalizeDrawCommands"
    /\ ret.log = "already"
    /\ remapFinalized
    /\ remapCount > 0
    /\ pendingRemapSegments # <<>>

\* ---------------------------------------------------------------- C15
\* The layout as a function of the input trace alone: the recorded segments
\* and the commands appended.
RECURSIVE TraceRemap(_, _, _)
\* the recorded indices of the commands c..n-1, command after command
TraceRemap(segs, c, n) ==
    IF c >= n THEN <<>> ELSE Recorded(segs, c) \o TraceRemap(segs, c + 1, n)

TraceCount(segs, c) == Len(Recorded(segs, c))

TraceFirst(segs, c) == IF TraceCount(segs, c) = 0 THEN 0 ELSE Len(TraceRemap(segs, 0, c))

\* the highest command with a segment over instance t, 0 when there is none
TraceOwner(segs, n, t) ==
    LET owners == {c \in 0..(n - 1) :
                       \E k \in 1..TraceCount(segs, c) : Recorded(segs, c)[k] = t}
    IN IF owners = {} THEN 0 ELSE CHOOSE c \in owners : \A d \in owners : d <= c

\* C15: the buffers a finalize publishes are a function of the trace of
\* appendMeshGeometry / appendInstanceData / addDrawCommandInstances calls
\* before it, so two pools driven by the same trace end with the same remap
\* prefix, indirect table, instance->command map and base-offset table:
\* commands in ascending index, each command's segments in recording order.
C15_FinalizeDeterministic ==
    [][(FinalizeBuilt' /\ ~remapFinalized) =>
          LET segs == pendingRemapSegments
              n == drawCommandCount
              total == SumCounts(segs)
              prefix == TraceRemap(segs, 0, n)
          IN
          /\ remapCount' = total
          /\ Len(prefix) = total
          /\ \A k \in 0..(total - 1) :
                 /\ Get(remapData', k) = prefix[k + 1]
                 /\ Get(visibleIndicesBuffer', k) = prefix[k + 1]
          /\ \A c \in 0..(n - 1) :
                 /\ CommandWords(indirectDrawGpuBuffer', c) =
                        [w \in 0..4 |->
                            IF w = 1 THEN TraceCount(segs, c)
                            ELSE IF w = 4 THEN TraceFirst(segs, c)
                            ELSE Get(indirectDrawData, c * 5 + w)]
                 /\ CommandWords(indirectDrawData', c) =
                        CommandWords(indirectDrawGpuBuffer', c)
                 /\ Get(drawCmdBaseOffsetsBuffer', c) = TraceFirst(segs, c)
                 /\ Get(drawCmdBaseOffsets', c) = TraceFirst(segs, c)
          /\ \A t \in 0..(instanceCount - 1) :
                 Get(instanceDrawCmdMapBuffer', t) = TraceOwner(segs, n, t)
          /\ \A t \in InstanceSlots :
                 Get(instanceDrawCmdMap', t) = TraceOwner(segs, n, t)]_vars

\* C15 witness: a layout was built from segments of two commands recorded
\* interleaved, the first command's later segment naming a lower instance.
C15_Witness ==
    /\ FinalizeBuilt
    /\ drawCommandCount = 2
    /\ InstanceCountOf(indirectDrawGpuBuffer, 0) = 2
    /\ InstanceCountOf(indirectDrawGpuBuffer, 1) = 1
    /\ Get(visibleIndicesBuffer, 0) = 2
    /\ Get(visibleIndicesBuffer, 1) = 0

\* ---------------------------------------------------------------- C16
\* instance_count[c] in the device's indirect buffer, for every command
GpuCounts == [k \in 1..drawCommandCount |-> At(indirectDrawGpuBuffer, (k - 1) * 5 + 1)]

\* The instances of command c that pass the frustum test of the current uniform.
VisibleOf(c) ==
    {i \in 0..(uniformBuffer.totalInstances - 1) :
         At(instanceDrawCmdMapBuffer, i) = c /\ CullVisible(i)}

\* C16: when a resetCounts -> cullInstances sequence has ended and the
\* sequence before it ran with the same culling uniform, every command's
\* instance_count is what the sequence before left, whatever the order of the
\* invocations of either: it is the number of the command's instances that
\* pass the frustum test, and nothing of the earlier count is carried over.
C16_ResetIdempotent ==
    (CullPassEnded /\ prevPass.uniform = uniformBuffer) =>
        /\ GpuCounts = prevPass.counts
        /\ \A c \in Commands : GpuCounts[c + 1] = Cardinality(VisibleOf(c))

\* C16 witness: a second sequence with the same uniform has ended on a pool
\* of two commands, both with a visible instance, and one instance culled.
C16_Witness ==
    /\ CullPassEnded
    /\ prevPass.uniform = uniformBuffer
    /\ drawCommandCount = 2
    /\ GpuCounts[1] > 0
    /\ GpuCounts[2] > 0
    /\ \E i \in 0..(uniformBuffer.totalInstances - 1) : ~CullVisible(i)

\* ---------------------------------------------------------------- C17
\* C17: on every step, each appended command keeps the index_count,
\* first_index and base_vertex appendMeshGeometry wrote into the host table,
\* and the host instance_count or first_instance of a command changes only in
\* a finalizeDrawCommands call.
C17_Original ==
    [][\A c \in Commands :
          /\ \A w \in {0, 2, 3} :
                 Get(indirectDrawData', c * 5 + w) = Get(indirectDrawData, c * 5 + w)
          /\ (\E w \in {1, 4} :
                 Get(indirectDrawData', c * 5 + w) # Get(indirectDrawData, c * 5 + w))
                 => ret'.op = "finalizeDrawCommands"]_vars

\* ---------------------------------------------------------------- C18
\* C18: isFinalized never goes back to false, becomes true only in a
\* finalizeDrawCommands call, and is true only when a finalize has compacted
\* at least one instance into the remap buffer.
C18_Original ==
    [][/\ remapFinalized => remapFinalized'
       /\ (remapFinalized' # remapFinalized) => ret'.op = "finalizeDrawCommands"
       /\ remapFinalized' => remapCount' > 0]_vars

\* ---------------------------------------------------------------- C19
\* No value occurs at two slots of the first n entries of a remap.
NoDuplicate(remap, n) ==
    \A j, k \in 0..(n - 1) : j # k => Get(remap, j) # Get(remap, k)

\* C19 as stated: whatever segments addDrawCommandInstances has recorded, a
\* finalize that builds the layout leaves no instance index twice in the
\* remap prefix [0, total finalized entries).
C19_Original ==
    [][(FinalizeBuilt' /\ ~remapFinalized) =>
          /\ NoDuplicate(remapData', remapCount')
          /\ NoDuplicate(visibleIndicesBuffer', remapCount')]_vars

\* ---------------------------------------------------------------- C20
\* The node the loop is at has a mesh of the chunk and usable instancing data.
NodeUsable ==
    LET node == tile.gltf.nodes[tile.n + 1]
    IN node.ext = "ok" /\ node.mesh >= 0 /\ node.mesh < Len(tile.gltf.meshes)

\* C20: over every sequence of processTileGltf calls, a fingerprint once in
\* the cache keeps its MeshAtlasEntry; appendMeshGeometry succeeds only for a
\* fingerprint not yet cached and its entry is cached then, so it succeeds at
\* most once per fingerprint and the commands are as many as the cached
\* fingerprints, each with a command index of its own; the instances of a node
\* are collected under the command index cached for the fingerprint of its
\* mesh, and each group is recorded as a segment of that command.
C20_FingerprintDedup ==
    [][/\ \A fp \in DOMAIN globalMeshCache :
              fp \in DOMAIN globalMeshCache' /\ globalMeshCache'[fp] = globalMeshCache[fp]
       /\ \A fp \in DOMAIN globalMeshCache' :
              /\ globalMeshCache'[fp].drawCommandIndex \in 0..(drawCommandCount' - 1)
              /\ \A other \in DOMAIN globalMeshCache' :
                     other # fp => globalMeshCache'[other].drawCommandIndex
                                       # globalMeshCache'[fp].drawCommandIndex
       /\ drawCommandCount' = Cardinality(DOMAIN globalMeshCache')
       /\ drawCommandCount' > drawCommandCount =>
              /\ tile.pc = "nodes"
              /\ NodeFingerprint \notin DOMAIN globalMeshCache
              /\ globalMeshCache'[NodeFingerprint] = ret'.entry
       /\ \A k \in 1..Len(tile'.pendingInstances) :
              \A fp \in tile'.pendingInstances[k].fps :
                  /\ fp \in DOMAIN globalMeshCache'
                  /\ globalMeshCache'[fp].drawCommandIndex = tile'.pendingInstances[k].cmdIdx
       /\ (tile.pc = "nodes" /\ tile' # tile /\ NodeUsable
               /\ NodeFingerprint \in DOMAIN globalMeshCache') =>
              \E k \in 1..Len(tile'.pendingInstances) :
                  NodeFingerprint \in tile'.pendingInstances[k].fps
       /\ (tile.pc = "upload" /\ tile' # tile /\ tile.l = Len(UploadGroup.trsList)) =>
              pendingRemapSegments' =
                  Append(pendingRemapSegments,
                         [cmdIdx |-> UploadGroup.cmdIdx, firstTrs |-> tile.firstInstance,
                          count |-> UploadGroup.totalCount])]_vars

\* C20 witness: a chunk with two meshes was followed by a chunk whose only
\* mesh has the fingerprint of the first chunk's first mesh (and another
\* fourth vertex); no third command was appended, the atlas still holds the
\* first chunk's geometry, and the later chunk's instances were recorded
\* under command 0.
C20_Witness ==
    /\ tile.pc = "idle"
    /\ ret.op = "addDrawCommandInstances"
    /\ drawCommandCount = 2
    /\ Len(pendingRemapSegments) = 3
    /\ pendingRemapSegments[1].cmdIdx = 0
    /\ pendingRemapSegments[2].cmdIdx = 1
    /\ pendingRemapSegments[3].cmdIdx = 0
    /\ Get(vertexData, 3 * 6 + 1) = -1

\* ---------------------------------------------------------------- C21
\* vs_main of indirect.wgsl for one instance_index: global_index is read from
\* the remap buffer, the transform from array<InstanceTRS> (16 floats per
\* element) and the identifier from array<u32> (one word per element), both at
\* global_index.
VsMain(instance_index) ==
    LET global_index == Get(visibleIndicesBuffer, instance_index)
    IN [global_index |-> global_index,
        instance |-> [k \in 1..16 |-> Get(instanceTRSBuffer, global_index * 16 + k - 1)],
        batchId |-> Get(batchIdBuffer, global_index)]

\* C21 as stated: in a submitted frame, for every slot s a command draws, the
\* vertex shader reads t = remap[s] and uses the transform and the identifier
\* that appendInstanceData stored as instance t.
C21_Original ==
    submitted # <<>> =>
        \A c \in Commands : \A s \in Slots(indirectDrawGpuBuffer, c) :
            LET t == Get(visibleIndicesBuffer, s) IN
            (t >= 0 /\ t < instanceCount) =>
                /\ VsMain(s).global_index = t
                /\ VsMain(s).instance = InstanceRecord(trsData, batchIdData, t).trs
                /\ VsMain(s).batchId = InstanceRecord(trsData, batchIdData, t).id

\* ---------------------------------------------------------------- C22
\* The step belongs to a frame: the culling dispatch, an invocation of the
\* reset or cull pass, the completion of the submission, or the render call.
FrameStep ==
    \/ gpuPass # "idle"
    \/ ret'.op = "dispatchCulling"
    \/ ret'.op = "executeIndirectPass"

\* Every device buffer of the pool but the remap buffer and the indirect
\* buffer, and the index_count, first_index, base_vertex and first_instance
\* words of every slot of the indirect buffer.
FrameReadOnly ==
    <<vertexAtlasBuffer, indexAtlasBuffer, instanceTRSBuffer, batchIdBuffer,
      instanceDrawCmdMapBuffer, drawCmdBaseOffsetsBuffer, meshBoundsBuffer,
      [c \in 0..(maxDrawCommands - 1) |->
          [w \in {0, 2, 3, 4} |-> Get(indirectDrawGpuBuffer, c * 5 + w)]]>>

\* The host arrays and cursors of the pool.
HostPool ==
    <<vertexData, indexData, vertexCount, indexCount, trsData, batchIdData, instanceCount,
      commandVars, trackVars, remapVars, remapFinalized, pendingRemapSegments>>

\* C22: every step of a frame (culling dispatch, resetCounts and cullInstances
\* invocations in any order, render call) leaves the transforms, identifiers,
\* instance->command map, base-offset table, bounds table, vertex and index
\* atlases and the index_count, first_index, base_vertex and first_instance
\* words of every command as they were, on the device and on the host; only
\* instance_count words and remap entries change.
C22_FrameWritesCountsAndRemapOnly ==
    [][FrameStep => UNCHANGED <<FrameReadOnly, HostPool>>]_vars

\* C22 witness: a render call was submitted after a reset and cull sequence
\* that changed an instance_count and a remap entry of the finalized layout.
C22_Witness ==
    /\ ret.op = "executeIndirectPass"
    /\ submitted # <<>>
    /\ gpuPass = "idle"
    /\ cullPc # <<>>
    /\ \E c \in Commands :
           InstanceCountOf(indirectDrawGpuBuffer, c) # InstanceCountOf(indirectDrawData, c)
    /\ \E k \in 0..(remapCount - 1) : Get(visibleIndicesBuffer, k) # Get(remapData, k)

RemapAndIndirect ==
    <<remapData, remapCount, visibleIndicesBuffer, indirectDrawData, indirectDrawGpuBuffer>>

AtlasVertices(atlas, first, n) == SubSeq(atlas, first * 6 + 1, (first + n) * 6)

\* The squared distance from vertex i of an interleaved vertex array to c.
DistSq(vertices, i, c) ==
    LET dx == At(vertices, i * 6 + 0) - c[1]
        dy == At(vertices, i * 6 + 1) - c[2]
        dz == At(vertices, i * 6 + 2) - c[3]
    IN dx * dx + dy * dy + dz * dz

FreshPool ==
    /\ instanceCount = 0 /\ drawCommandCount = 0 /\ vertexCount = 0 /\ indexCount = 0
    /\ remapCount = 0 /\ ~remapFinalized /\ pendingRemapSegments = <<>>
    /\ drawCommandFirstInstance = <<>> /\ drawCommandInstanceCount = <<>>
    /\ trsData = Fill(INITIAL_INSTANCE_CAPACITY * 16, 0)
    /\ batchIdData = Fill(INITIAL_INSTANCE_CAPACITY * 4, 0)
    /\ indirectDrawData = Fill(maxDrawCommands * 5, 0)
    /\ vertexData = Fill(INITIAL_VERTEX_CAPACITY * 6, 0)
    /\ indexData = Fill(INITIAL_INDEX_CAPACITY, 0)
    /\ remapData = Fill(INITIAL_INSTANCE_CAPACITY, 0)
    /\ instanceTRSBuffer = trsData /\ batchIdBuffer = batchIdData
    /\ indirectDrawGpuBuffer = indirectDrawData
    /\ vertexAtlasBuffer = vertexData /\ indexAtlasBuffer = indexData
    /\ visibleIndicesBuffer = remapData
    /\ instanceDrawCmdMapBuffer = Fill(INITIAL_INSTANCE_CAPACITY, 0)
    /\ drawCmdBaseOffsetsBuffer = Fill(maxDrawCommands, 0)
    /\ meshBoundsBuffer = Fill(maxDrawCommands * 4, 0)

C27_Original ==
    [][(/\ ret'.op = "finalizeDrawCommands"
        /\ remapCount = 0
        /\ PendingTotal(pendingRemapSegments) \in 1..INITIAL_INSTANCE_CAPACITY) =>
          /\ ret'.log = "none"
          /\ remapCount' = PendingTotal(pendingRemapSegments)
          /\ \E c \in Commands : InstanceCountOf(indirectDrawGpuBuffer', c) > 0]_vars

\* ---------------------------------------------------------------- C28
\* The instance indices [firstTrs, firstTrs + count) of a segment.
SegmentRange(seg) == seg.firstTrs..(seg.firstTrs + seg.count - 1)

\* C28 as stated: whenever processTileGltf has returned, every segment it
\* recorded lies inside [0, instance_count), the segments are pairwise
\* disjoint and their counts add up to instance_count, also after an
\* appendInstanceData that was refused for capacity.
C28_Original ==
    tile.pc = "idle" =>
        /\ \A k \in 1..Len(pendingRemapSegments) :
               SegmentRange(pendingRemapSegments[k]) \subseteq 0..(instanceCount - 1)
        /\ \A j, k \in 1..Len(pendingRemapSegments) :
               j # k => SegmentRange(pendingRemapSegments[j])
                            \cap SegmentRange(pendingRemapSegments[k]) = {}
        /\ SumCounts(pendingRemapSegments) = instanceCount

\* ---------------------------------------------------------------- C29
\* C29 as stated: in a chunked load finalizeDrawCommands is called exactly
\* once and only when every chunk load has settled; at most one chunk is
\* inside its append-and-record step at a time; segments recorded by
\* different chunks have disjoint instance ranges; a rejected chunk has
\* recorded no segment.
C29_Original ==
    /\ (loader.pc = "done") <=> (ret.op = "finalizeDrawCommands")
    /\ loader.pc = "done" => \A k \in DOMAIN loader.chunk : Settled(loader.chunk[k])
    /\ Cardinality({k \in DOMAIN loader.chunk : loader.chunk[k] = "parsing"})
           = (IF tile.pc = "idle" THEN 0 ELSE 1)
    /\ Len(loader.owner) = Len(pendingRemapSegments) =>
           \A a, b \in 1..Len(loader.owner) :
               loader.owner[a] # loader.owner[b] =>
                   SegmentRange(pendingRemapSegments[a])
                       \cap SegmentRange(pendingRemapSegments[b]) = {}
    /\ \A k \in DOMAIN loader.chunk :
           loader.chunk[k] = "rejected" =>
               \A a \in 1..Len(loader.owner) : loader.owner[a] # k

\* ---------------------------------------------------------------- C30
\* The invocations of the cull pass that reached the atomicAdd of command c.
Survivors(c) ==
    {i \in 0..(uniformBuffer.totalInstances - 1) :
        CullVisible(i) /\ At(instanceDrawCmdMapBuffer, i) = c}

\* How often v occurs in s.
Occurrences(s, v) == Cardinality({k \in DOMAIN s : s[k] = v})

\* C30 as stated: when the cull pass has ended, on a pool whose layout was
\* built, for every command c the slots its atomicAdd handed out are pairwise
\* distinct and are exactly 0 .. post-cull instance_count[c] - 1; the live
\* region of c holds every surviving instance of c exactly once and nothing
\* else; and when every instance passed the frustum test, the post-cull
\* instance_count[c] is the finalized one and the live region is a permutation
\* of the finalized region.
C30_Original ==
    (CullPassEnded /\ remapCount > 0) =>
        \A c \in Commands :
            LET live == Region(visibleIndicesBuffer, indirectDrawGpuBuffer, c)
                finalized == Region(remapData, indirectDrawData, c)
            IN
            /\ \A i, j \in Survivors(c) : i # j => cullSlot[i + 1] # cullSlot[j + 1]
            /\ {cullSlot[i + 1] : i \in Survivors(c)}
                   = 0..(InstanceCountOf(indirectDrawGpuBuffer, c) - 1)
            /\ \A i \in Survivors(c) : Occurrences(live, i) = 1
            /\ \A k \in DOMAIN live : live[k] \in Survivors(c)
            /\ (\A i \in 0..(uniformBuffer.totalInstances - 1) : CullVisible(i)) =>
                   /\ InstanceCountOf(indirectDrawGpuBuffer, c) = FinalizedCount(c)
                   /\ \A v \in 0..(instanceCount - 1) :
                          Occurrences(live, v) = Occurrences(finalized, v)

====
